---- MODULE Spec2Model ----
(***************************************************************************)
(* A model of the risor bytecode virtual machine (src/vm/vm.go): the       *)
(* dispatcher, the call/return protocol with deferred calls, the module    *)
(* loader, cancellation through the halt flag, and Clone/spawn.            *)
(*                                                                         *)
(* Go pointers are modelled as indexes into heap sequences (codes, gvecs,  *)
(* regs, modmaps, mods), so that sharing and identity are observable.      *)
(* The Go call stack of task t is the sequence gostack[t]; the task       *)
(* executes the VM whose Run, Call or callFunction it is in. One Step is   *)
(* one iteration of the loop of eval, together with all the Go code that   *)
(* runs until some eval loop is at its head.                               *)
(***************************************************************************)
EXTENDS Integers, Sequences, FiniteSets, TLC

\* ------------------------------------------------------------------------
\* Program constants (src/vm/vm.go:19-25)

MaxArgs == 255

MaxFrameDepth == 1024

MaxStackDepth == 1024

StopSignal == -1

\* ------------------------------------------------------------------------
\* Bounds of the model

\* Number of VirtualMachine objects (the one built by New, plus clones).
MaxVMs == 2

\* Number of times the embedder invokes Run on the VM built by New.
MaxRuns == 2

\* Number of times the embedder (or host code) invokes Call.
MaxApiCalls == 1

\* ------------------------------------------------------------------------
\* Opcodes (package op). Only their being distinct matters to the VM.

OpInvalid == 0

OpNop == 1

OpHalt == 2

OpCall == 3

OpReturnValue == 4

OpDefer == 5

OpGo == 6

OpJumpBackward == 10

OpJumpForward == 11

OpPopJumpBackwardIfFalse == 12

OpPopJumpBackwardIfTrue == 13

OpPopJumpForwardIfFalse == 14

OpPopJumpForwardIfTrue == 15

OpLoadFast == 21

OpLoadGlobal == 23

OpLoadConst == 24

OpStoreFast == 31

OpStoreGlobal == 33

OpPartial == 45

OpLoadFree == 25

OpStoreFree == 34

OpLoadClosure == 26

OpMakeCell == 27

OpUnpack == 71

OpPopTop == 72

OpNil == 80

OpFalse == 81

OpTrue == 82

OpFromImport == 100

OpImport == 101

\* ------------------------------------------------------------------------
\* Values (package object). Every value has the same record shape:
\* t the type name, s a string payload, n an integer payload, a a vector.

\* A nil Go interface: an empty stack slot, an unset local or global.
GoNil == [t |-> "gonil", s |-> "", n |-> 0, a |-> <<>>]

Nil == [t |-> "nil", s |-> "", n |-> 0, a |-> <<>>]

NewBool(b) == [t |-> "bool", s |-> "", n |-> IF b THEN 1 ELSE 0, a |-> <<>>]

NewInt(i) == [t |-> "int", s |-> "", n |-> i, a |-> <<>>]

NewString(x) == [t |-> "string", s |-> x, n |-> 0, a |-> <<>>]

\* A compiled function, named by its entry in Fn.
NewFunction(f) == [t |-> "function", s |-> f, n |-> 0, a |-> <<>>]

\* A host callable.
Builtin(b) == [t |-> "builtin", s |-> b, n |-> 0, a |-> <<>>]

\* object.NewPartial(fn, args): a[1] is the callee, the rest the bound args.
NewPartial(fn, args) == [t |-> "partial", s |-> "", n |-> 0, a |-> <<fn>> \o args]

PartialFunction(p) == p.a[1]

PartialArgs(p) == SubSeq(p.a, 2, Len(p.a))

\* object.NewCell(&locals[slot]): the captured locals vector (its index in
\* gvecs) and the slot.
NewCell(vec, slot) == [t |-> "cell", s |-> "", n |-> 0, a |-> <<NewInt(vec), NewInt(slot)>>]

\* object.NewClosure(fn, free): fn with the free-variable cells.
NewClosure(fn, free) == [fn EXCEPT !.a = free]

\* fn.FreeVars()
FreeVars(fn) == fn.a

\* A list, the container of the items.
NewList(items) == [t |-> "list", s |-> "", n |-> 0, a |-> items]

\* A module object, by its index in mods.
ModV(id) == [t |-> "module", s |-> "", n |-> id, a |-> <<>>]

\* An error value returned by a host callable.
ErrV(msg) == [t |-> "error", s |-> msg, n |-> 0, a |-> <<>>]

IsTruthy(o) ==
    CASE o.t = "bool" -> o.n = 1
      [] o.t = "nil" -> FALSE
      [] o.t = "int" -> o.n # 0
      [] o.t = "string" -> o.s # ""
      [] OTHER -> TRUE

\* ------------------------------------------------------------------------
\* The compiled programs the VM is given (package compiler). A code object
\* is named by a string; Code(cc) gives its immutable fields: the
\* instruction words, the constants, the names of its globals (root code
\* only), its root, whether it is named, and the number of local slots.

MkCode(instrs, consts, globals, root, named, nlocals) ==
    [instrs |-> instrs, consts |-> consts, globals |-> globals,
     root |-> root, named |-> named, nlocals |-> nlocals]

\* Spins for ever: Nop at 0, JumpBackward 1 at 1 goes back to 0.
SpinInstrs == <<OpNop, OpJumpBackward, 1>>

Code(cc) ==
    CASE cc = "call" ->
            \* a sentinel, then id(7), partial(id, 7)(), and a host callable
            MkCode(<<OpTrue, OpLoadConst, 0, OpLoadConst, 1, OpCall, 1,
                     OpLoadConst, 0, OpLoadConst, 1, OpPartial, 1, OpCall, 0,
                     OpLoadConst, 2, OpCall, 0>>,
                   <<NewFunction("id"), NewInt(7), Builtin("ok")>>,
                   <<>>, "call", FALSE, 0)
      [] cc = "call.id" ->
            MkCode(<<OpLoadFast, 0, OpReturnValue>>, <<>>, <<>>, "call", FALSE, 1)
      [] cc = "defer" ->
            \* a sentinel, then g(), where g defers d1 and then d2
            MkCode(<<OpTrue, OpLoadConst, 0, OpCall, 0>>,
                   <<NewFunction("g")>>, <<>>, "defer", FALSE, 0)
      [] cc = "defer.g" ->
            MkCode(<<OpLoadConst, 0, OpPartial, 0, OpDefer,
                     OpLoadConst, 1, OpPartial, 0, OpDefer,
                     OpLoadConst, 2, OpReturnValue>>,
                   <<NewFunction("d1"), NewFunction("d2"), NewInt(1)>>,
                   <<>>, "defer", FALSE, 0)
      [] cc = "defer.d1" ->
            MkCode(<<OpLoadConst, 0, OpReturnValue>>, <<NewInt(11)>>,
                   <<>>, "defer", FALSE, 0)
      [] cc = "defer.d2" ->
            MkCode(<<OpLoadConst, 0, OpReturnValue>>, <<NewInt(12)>>,
                   <<>>, "defer", FALSE, 0)
      [] cc = "loop" ->
            MkCode(SpinInstrs, <<>>, <<>>, "loop", FALSE, 0)
      [] cc = "spin" ->
            \* calls a function that spins for ever
            MkCode(<<OpLoadConst, 0, OpCall, 0>>, <<NewFunction("spinf")>>,
                   <<>>, "spin", FALSE, 0)
      [] cc = "spin.f" ->
            MkCode(SpinInstrs, <<>>, <<>>, "spin", FALSE, 0)
      [] cc = "imp" ->
            \* import m; import m
            MkCode(<<OpLoadConst, 0, OpImport, OpLoadConst, 0, OpImport>>,
                   <<NewString("m")>>, <<>>, "imp", FALSE, 0)
      [] cc = "from" ->
            \* from m import x, twice: m/x is no module, x is a global of m
            MkCode(<<OpLoadConst, 0, OpLoadConst, 1, OpFromImport, 1, 1,
                     OpLoadConst, 0, OpLoadConst, 1, OpFromImport, 1, 1>>,
                   <<NewString("m"), NewString("x")>>, <<>>, "from", FALSE, 0)
      [] cc = "fromslow" ->
            \* import m; from m import slow: m/slow is a module that spins
            MkCode(<<OpLoadConst, 0, OpImport, OpPopTop,
                     OpLoadConst, 0, OpLoadConst, 1, OpFromImport, 1, 1>>,
                   <<NewString("m"), NewString("slow")>>, <<>>, "fromslow", FALSE, 0)
      [] cc = "frombad" ->
            \* from m import bad, twice: m/bad is a module whose code fails
            MkCode(<<OpLoadConst, 0, OpLoadConst, 1, OpFromImport, 1, 1, OpPopTop,
                     OpLoadConst, 0, OpLoadConst, 1, OpFromImport, 1, 1>>,
                   <<NewString("m"), NewString("bad")>>, <<>>, "frombad", FALSE, 0)
      [] cc = "rec" ->
            \* import A, where A imports itself unless its global seen is set
            MkCode(<<OpLoadConst, 0, OpImport>>, <<NewString("A")>>,
                   <<>>, "rec", FALSE, 0)
      [] cc = "push" ->
            \* one push more than the stack holds
            MkCode([j \in 1..(MaxStackDepth + 1) |-> OpTrue], <<>>, <<>>, "push", FALSE, 0)
      [] cc = "pop" ->
            MkCode(<<OpPopTop>>, <<>>, <<>>, "pop", FALSE, 0)
      [] cc = "ret0" ->
            \* ReturnValue in the entrypoint's frame
            MkCode(<<OpTrue, OpReturnValue>>, <<>>, <<>>, "ret0", FALSE, 0)
      [] cc = "go" ->
            \* g = 5; go w(); g   (w stores 9 to g and reads it)
            MkCode(<<OpLoadConst, 1, OpStoreGlobal, 0,
                     OpLoadConst, 0, OpPartial, 0, OpGo,
                     OpLoadGlobal, 0, OpPopTop>>,
                   <<NewFunction("w"), NewInt(5)>>, <<"g">>, "go", FALSE, 0)
      [] cc = "go.w" ->
            MkCode(<<OpLoadConst, 0, OpStoreGlobal, 0, OpLoadGlobal, 0,
                     OpReturnValue>>,
                   <<NewInt(9)>>, <<>>, "go", FALSE, 0)
      [] cc = "halt" ->
            \* Halt in the main code, between two instructions
            MkCode(<<OpTrue, OpHalt, OpFalse>>, <<>>, <<>>, "halt", FALSE, 0)
      [] cc = "haltfn" ->
            \* stop(); false   (stop executes Halt)
            MkCode(<<OpLoadConst, 0, OpCall, 0, OpFalse>>, <<NewFunction("stop")>>,
                   <<>>, "haltfn", FALSE, 0)
      [] cc = "haltfn.stop" ->
            MkCode(<<OpTrue, OpHalt, OpFalse>>, <<>>, <<>>, "haltfn", FALSE, 0)
      [] cc = "haltmod" ->
            \* import m/halt; false   (the module's code executes Halt)
            MkCode(<<OpLoadConst, 0, OpImport, OpFalse>>, <<NewString("m/halt")>>,
                   <<>>, "haltmod", FALSE, 0)
      [] cc = "mod.halt" ->
            MkCode(<<OpTrue, OpHalt, OpFalse>>, <<>>, <<>>, "mod.halt", FALSE, 0)
      [] cc = "gospin" ->
            \* go f(); then spins (f spins for ever, too)
            MkCode(<<OpLoadConst, 0, OpPartial, 0, OpGo, OpNop, OpJumpBackward, 1>>,
                   <<NewFunction("spin2")>>, <<>>, "gospin", FALSE, 0)
      [] cc = "gospin.f" ->
            MkCode(SpinInstrs, <<>>, <<>>, "gospin", FALSE, 0)
      [] cc = "mod.m" ->
            \* x = true; bad = false
            MkCode(<<OpTrue, OpStoreGlobal, 0, OpFalse, OpStoreGlobal, 1>>,
                   <<>>, <<"x", "bad">>, "mod.m", FALSE, 0)
      [] cc = "mod.slow" ->
            MkCode(SpinInstrs, <<>>, <<>>, "mod.slow", FALSE, 0)
      [] cc = "mod.bad" ->
            MkCode(<<OpInvalid>>, <<>>, <<>>, "mod.bad", FALSE, 0)
      [] cc = "mod.A" ->
            \* if !seen { seen = true; import A }
            MkCode(<<OpLoadGlobal, 0, OpPopJumpForwardIfTrue, 9,
                     OpTrue, OpStoreGlobal, 0, OpLoadConst, 0, OpImport, OpPopTop>>,
                   <<NewString("A")>>, <<"seen">>, "mod.A", FALSE, 0)
      [] cc = "fault" ->
            \* oob(), where oob loads a constant it does not have
            MkCode(<<OpLoadConst, 0, OpCall, 0>>, <<NewFunction("oob")>>,
                   <<>>, "fault", FALSE, 0)
      [] cc = "fault.oob" ->
            MkCode(<<OpLoadConst, 3, OpReturnValue>>, <<>>, <<>>, "fault", FALSE, 0)
      [] cc = "deferr" ->
            \* h(), where h defers bad, a failing host callable and d3, and
            \* then fails by calling an integer
            MkCode(<<OpLoadConst, 0, OpCall, 0>>, <<NewFunction("h")>>,
                   <<>>, "deferr", FALSE, 0)
      [] cc = "deferr.h" ->
            MkCode(<<OpLoadConst, 0, OpPartial, 0, OpDefer,
                     OpLoadConst, 1, OpPartial, 0, OpDefer,
                     OpLoadConst, 2, OpPartial, 0, OpDefer,
                     OpLoadConst, 3, OpCall, 0>>,
                   <<NewFunction("bad"), Builtin("fail"), NewFunction("d3"), NewInt(1)>>,
                   <<>>, "deferr", FALSE, 0)
      [] cc = "deferr.bad" ->
            MkCode(<<OpInvalid>>, <<>>, <<>>, "deferr", FALSE, 0)
      [] cc = "deferr.d3" ->
            MkCode(<<OpLoadConst, 0, OpReturnValue>>, <<NewInt(13)>>,
                   <<>>, "deferr", FALSE, 0)
      [] cc = "fromleak" ->
            \* from m import leak: m/leak is a module whose code leaves a value
            MkCode(<<OpLoadConst, 0, OpLoadConst, 1, OpFromImport, 1, 1>>,
                   <<NewString("m"), NewString("leak")>>, <<>>, "fromleak", FALSE, 0)
      [] cc = "mod.leak" ->
            MkCode(<<OpTrue>>, <<>>, <<>>, "mod.leak", FALSE, 0)
      [] cc = "impbad" ->
            \* import leakbad: a module whose code pushes a value and fails
            MkCode(<<OpLoadConst, 0, OpImport>>, <<NewString("leakbad")>>,
                   <<>>, "impbad", FALSE, 0)
      [] cc = "mod.leakbad" ->
            MkCode(<<OpTrue, OpInvalid>>, <<>>, <<>>, "mod.leakbad", FALSE, 0)
      [] cc = "unpack" ->
            \* a sentinel, then a list of two unpacked to two names, an
            \* empty list to none, and the list of two to three names
            MkCode(<<OpTrue, OpLoadConst, 0, OpUnpack, 2, OpLoadConst, 1, OpUnpack, 0,
                     OpLoadConst, 0, OpUnpack, 3>>,
                   <<NewList(<<NewInt(1), NewInt(2)>>), NewList(<<>>)>>,
                   <<>>, "unpack", FALSE, 0)
      [] cc = "jb" ->
            \* a conditional jump back by 2 from address 2, taken
            MkCode(<<OpNop, OpTrue, OpPopJumpBackwardIfTrue, 2>>, <<>>, <<>>,
                   "jb", FALSE, 0)
      [] cc = "partial2" ->
            \* partial(first, 1)(2), where first returns its first argument
            MkCode(<<OpLoadConst, 0, OpLoadConst, 1, OpPartial, 1,
                     OpLoadConst, 2, OpCall, 1>>,
                   <<NewFunction("first"), NewInt(1), NewInt(2)>>,
                   <<>>, "partial2", FALSE, 0)
      [] cc = "partial2.first" ->
            MkCode(<<OpLoadFast, 0, OpReturnValue>>, <<>>, <<>>, "partial2", FALSE, 2)
      [] cc = "cell" ->
            \* c = outer(); clob(8); c(); then a MakeCell one frame too far
            MkCode(<<OpLoadConst, 0, OpCall, 0, OpStoreGlobal, 0,
                     OpLoadConst, 1, OpLoadConst, 2, OpCall, 1, OpPopTop,
                     OpLoadGlobal, 0, OpCall, 0, OpPopTop,
                     OpMakeCell, 0, 1>>,
                   <<NewFunction("outer"), NewFunction("clob"), NewInt(8)>>,
                   <<"c">>, "cell", FALSE, 0)
      [] cc = "cell.outer" ->
            \* x = 10; inner = func() {...}; x = 20; inner(); x; return inner
            MkCode(<<OpLoadConst, 0, OpStoreFast, 0,
                     OpMakeCell, 0, 0, OpLoadClosure, 1, 1, OpStoreFast, 1,
                     OpLoadConst, 2, OpStoreFast, 0,
                     OpLoadFast, 1, OpCall, 0, OpPopTop,
                     OpLoadFast, 0, OpPopTop,
                     OpLoadFast, 1, OpReturnValue>>,
                   <<NewInt(10), NewFunction("inner"), NewInt(20)>>,
                   <<>>, "cell", FALSE, 2)
      [] cc = "cell.inner" ->
            \* x; x = 30; return x
            MkCode(<<OpLoadFree, 0, OpPopTop, OpLoadConst, 0, OpStoreFree, 0,
                     OpLoadFree, 0, OpReturnValue>>,
                   <<NewInt(30)>>, <<>>, "cell", FALSE, 0)
      [] cc = "cell.clob" ->
            \* func clob(a) { a = 9; return a }
            MkCode(<<OpLoadConst, 0, OpStoreFast, 0, OpLoadFast, 0, OpReturnValue>>,
                   <<NewInt(9)>>, <<>>, "cell", FALSE, 1)
      [] cc = "dflt" ->
            \* optA(3); pair(8, 9); opt(3)
            MkCode(<<OpLoadConst, 0, OpLoadConst, 3, OpCall, 1, OpPopTop,
                     OpLoadConst, 1, OpLoadConst, 4, OpLoadConst, 5, OpCall, 2, OpPopTop,
                     OpLoadConst, 2, OpLoadConst, 3, OpCall, 1>>,
                   <<NewFunction("optA"), NewFunction("pair"), NewFunction("opt"),
                     NewInt(3), NewInt(8), NewInt(9)>>,
                   <<>>, "dflt", FALSE, 0)
      [] cc = "dflt.optA" ->
            \* func optA(a, b=5) { return b }, named
            MkCode(<<OpLoadFast, 1, OpReturnValue>>, <<>>, <<>>, "dflt", TRUE, 3)
      [] cc = "dflt.pair" ->
            MkCode(<<OpLoadFast, 1, OpReturnValue>>, <<>>, <<>>, "dflt", FALSE, 2)
      [] cc = "dflt.opt" ->
            \* func opt(a, b=5) { return b }
            MkCode(<<OpLoadFast, 1, OpReturnValue>>, <<>>, <<>>, "dflt", FALSE, 2)
      [] cc = "usefn" ->
            \* from lib import f; f()
            MkCode(<<OpLoadConst, 0, OpLoadConst, 1, OpFromImport, 1, 1, OpCall, 0>>,
                   <<NewString("lib"), NewString("f")>>, <<>>, "usefn", FALSE, 0)
      [] cc = "mod.lib" ->
            \* y = 7; f = func() { return y }
            MkCode(<<OpLoadConst, 0, OpStoreGlobal, 0, OpLoadConst, 1, OpStoreGlobal, 1>>,
                   <<NewInt(7), NewFunction("getY")>>, <<"y", "f">>, "mod.lib", FALSE, 0)
      [] cc = "lib.getY" ->
            MkCode(<<OpLoadGlobal, 0, OpReturnValue>>, <<>>, <<>>, "mod.lib", FALSE, 0)

\* The main codes New is given.
Programs ==
    {"call", "defer", "loop", "spin", "imp", "from", "fromslow", "frombad",
     "rec", "go"}

\* Main codes that drive the stack and the frame store to their ends.
EdgePrograms == {"push", "pop", "ret0"}

\* Main codes for single instructions and for the paths out of a nested
\* evaluation.
OpsPrograms ==
    {"usefn", "fault", "defer", "deferr", "fromleak", "impbad", "from", "unpack",
     "jb", "rec", "loop", "partial2", "dflt", "cell",
     "halt", "haltfn", "haltmod"}

CodeNames ==
    Programs \cup EdgePrograms \cup OpsPrograms \cup
        {"call.id", "defer.g", "defer.d1", "defer.d2", "spin.f",
         "go.w", "mod.m", "mod.slow", "mod.bad", "mod.A", "mod.lib", "lib.getY", "fault.oob",
         "deferr.h", "deferr.bad", "deferr.d3", "mod.leak", "mod.leakbad",
         "partial2.first", "dflt.optA", "dflt.pair", "dflt.opt",
         "cell.outer", "cell.inner", "cell.clob", "gospin", "gospin.f",
         "haltfn.stop", "mod.halt"}

\* Compiled functions: code, number of parameters, defaults (indexed by
\* parameter position), number of required arguments. The defaults vector
\* of optA has an entry for every parameter; that of opt, built by a host
\* with NewFunction, has the entries of the defaulted parameters only.
Fn(f) ==
    CASE f = "id" -> [code |-> "call.id", params |-> 1, defaults |-> <<>>, required |-> 1]
      [] f = "g" -> [code |-> "defer.g", params |-> 0, defaults |-> <<>>, required |-> 0]
      [] f = "d1" -> [code |-> "defer.d1", params |-> 0, defaults |-> <<>>, required |-> 0]
      [] f = "d2" -> [code |-> "defer.d2", params |-> 0, defaults |-> <<>>, required |-> 0]
      [] f = "spinf" -> [code |-> "spin.f", params |-> 0, defaults |-> <<>>, required |-> 0]
      [] f = "w" -> [code |-> "go.w", params |-> 0, defaults |-> <<>>, required |-> 0]
      [] f = "h" -> [code |-> "deferr.h", params |-> 0, defaults |-> <<>>, required |-> 0]
      [] f = "bad" -> [code |-> "deferr.bad", params |-> 0, defaults |-> <<>>, required |-> 0]
      [] f = "d3" -> [code |-> "deferr.d3", params |-> 0, defaults |-> <<>>, required |-> 0]
      [] f = "first" ->
            [code |-> "partial2.first", params |-> 2, defaults |-> <<>>, required |-> 2]
      [] f = "optA" ->
            [code |-> "dflt.optA", params |-> 2, defaults |-> <<GoNil, NewInt(5)>>,
             required |-> 1]
      [] f = "pair" -> [code |-> "dflt.pair", params |-> 2, defaults |-> <<>>, required |-> 2]
      [] f = "opt" ->
            [code |-> "dflt.opt", params |-> 2, defaults |-> <<NewInt(5)>>, required |-> 1]
      [] f = "outer" -> [code |-> "cell.outer", params |-> 0, defaults |-> <<>>, required |-> 0]
      [] f = "inner" -> [code |-> "cell.inner", params |-> 0, defaults |-> <<>>, required |-> 0]
      [] f = "clob" -> [code |-> "cell.clob", params |-> 1, defaults |-> <<>>, required |-> 1]
      [] f = "spin2" -> [code |-> "gospin.f", params |-> 0, defaults |-> <<>>, required |-> 0]
      [] f = "stop" -> [code |-> "haltfn.stop", params |-> 0, defaults |-> <<>>, required |-> 0]
      [] f = "oob" -> [code |-> "fault.oob", params |-> 0, defaults |-> <<>>, required |-> 0]
      [] f = "getY" -> [code |-> "lib.getY", params |-> 0, defaults |-> <<>>, required |-> 0]

\* The functions the embedder may hand to Call, with the arguments.
ApiCalls(main) ==
    CASE main = "call" -> {<<"id", <<NewInt(7)>>>>}
      [] main = "defer" -> {<<"g", <<>>>>}
      [] main = "go" -> {<<"w", <<>>>>}
      [] main = "usefn" -> {<<"getY", <<>>>>}
      [] main = "fault" -> {<<"oob", <<>>>>}
      [] main = "deferr" -> {<<"h", <<>>>>}
      [] OTHER -> {}

\* Host globals given with WithGlobals (already as objects).
GlobalNames == {"seen"}

InputGlobals(main) ==
    [n \in GlobalNames |-> IF main = "rec" /\ n = "seen" THEN NewBool(FALSE) ELSE GoNil]

\* The importer: the code of the module a name resolves to, "" if none.
ModNames ==
    {"m", "m/x", "m/slow", "m/bad", "A", "lib", "lib/f", "m/leak", "leakbad", "m/halt"}

ImporterCode(name) ==
    CASE name = "m" -> "mod.m"
      [] name = "m/slow" -> "mod.slow"
      [] name = "m/bad" -> "mod.bad"
      [] name = "A" -> "mod.A"
      [] name = "lib" -> "mod.lib"
      [] name = "m/leak" -> "mod.leak"
      [] name = "leakbad" -> "mod.leakbad"
      [] name = "m/halt" -> "mod.halt"
      [] OTHER -> ""

\* filepath.Join of path segments.
RECURSIVE Join(_)
Join(segs) ==
    IF Len(segs) = 0 THEN ""
    ELSE IF Len(segs) = 1 THEN segs[1]
    ELSE segs[1] \o "/" \o Join(Tail(segs))

\* ------------------------------------------------------------------------
\* State

VARIABLES
    vms,        \* the VirtualMachine objects, vms[1] the one built by New
    gostack,    \* gostack[t]: the Go call stack of task t (VM t was made for it)
    codes,      \* heap of *code wrappers: [cc, globals]
    gvecs,      \* heap of object vectors: Globals, captured locals
    regs,       \* heap of loadedCode maps: code name -> wrapper (0: absent)
    modmaps,    \* heap of modules maps: module name -> module (0: absent)
    mods,       \* heap of *object.Module: [name, code, globals]
    cancelled,  \* the contexts that have been cancelled
    watchers,   \* the goroutines of Run waiting on ctx.Done(): <<ctx, vm>>
    runs,       \* number of Run invocations so far (the next context)
    apiCalls,   \* number of Call invocations so far
    obs         \* observations of what the program did (history)

vars ==
    <<vms, gostack, codes, gvecs, regs, modmaps, mods, cancelled, watchers,
      runs, apiCalls, obs>>

\* A frame of the frame store (frame.go).
ZeroFrame ==
    [code |-> 0, fn |-> GoNil, returnAddr |-> 0, returnSp |-> 0,
     locals |-> <<>>, capturedLocals |-> 0, defers |-> <<>>]

EmptyReg == [cc \in CodeNames |-> 0]

EmptyModMap == [n \in ModNames |-> 0]

NoVia == [kind |-> "", argc |-> 0, sp |-> 0, below |-> <<>>]

\* Who receives the result of call/callFunction. For the Call instruction:
\* its operand argc, and sp and the stack once callee and arguments are popped.
Via(kind, argc, sp, below) == [kind |-> kind, argc |-> argc, sp |-> sp, below |-> below]

NoSite == [kind |-> "", names |-> <<>>, j |-> 0, from |-> <<>>, sp |-> 0]

\* Who receives the result of loadModule: op.Import, or op.FromImport at
\* names[j] (sub: the import of parent/name, parent: the import of parent);
\* sp is the stack pointer once FromImport has popped its strings.
Site(kind, names, j, from, sp) ==
    [kind |-> kind, names |-> names, j |-> j, from |-> from, sp |-> sp]

\* The call or return that follows the one in progress.
NoTodo ==
    [op |-> "", fn |-> GoNil, args |-> <<>>, via |-> NoVia,
     out |-> [kind |-> "", err |-> "", val |-> GoNil, nd |-> 0],
     name |-> "", site |-> NoSite]

\* The state one operation works on: the heap, the acting task t, the VM v
\* it is executing a method of, the panic in flight (pan, "" if none) and
\* the return of the eval loop in progress (ret: "" to go on, "ok" for
\* return nil, "err" for return err).
World(t, v) ==
    [t |-> t, v |-> v, vms |-> vms, k |-> gostack, codes |-> codes, gvecs |-> gvecs,
     regs |-> regs, modmaps |-> modmaps, mods |-> mods, cancelled |-> cancelled,
     runs |-> runs,
     obs |-> obs, pan |-> "", ret |-> "", err |-> "",
     todo |-> NoTodo]

M(s) == s.vms[s.v]

Reg(s) == s.regs[M(s).loadedCode]

Modules(s) == s.modmaps[M(s).modules]

\* panic(msg), unless a panic is already unwinding this operation.
Panic(s, msg) == IF s.pan # "" THEN s ELSE [s EXCEPT !.pan = msg]

\* return err from eval
Fail(s, msg) == IF s.pan # "" \/ s.ret # "" THEN s ELSE [s EXCEPT !.ret = "err", !.err = msg]

\* return nil from eval
Stop(s) == IF s.pan # "" \/ s.ret # "" THEN s ELSE [s EXCEPT !.ret = "ok"]

IndexPanic == "runtime error: index out of range"

NilPanic == "runtime error: invalid memory address or nil pointer dereference"

\* ------------------------------------------------------------------------
\* Arrays: vm.stack, vm.frames and vm.tmp are fixed Go arrays. A sequence
\* holds the slots up to the last one that is not the zero value.

RECURSIVE Trim(_)
Trim(q) ==
    IF Len(q) > 0 /\ q[Len(q)] = GoNil THEN Trim(SubSeq(q, 1, Len(q) - 1)) ELSE q

Slot(q, i) == IF i >= 0 /\ i < Len(q) THEN q[i + 1] ELSE GoNil

SetSlot(q, i, x) ==
    IF i = Len(q) THEN (IF x = GoNil THEN q ELSE Append(q, x))
    ELSE IF i < Len(q) THEN Trim([q EXCEPT ![i + 1] = x])
    ELSE IF x = GoNil THEN q
    ELSE [j \in 1..(i + 1) |-> IF j <= Len(q) THEN q[j] ELSE IF j = i + 1 THEN x ELSE GoNil]

\* copy(q[off:], vals)
CopyInto(q, off, vals) ==
    IF Len(vals) = 0 THEN q
    ELSE Trim([j \in 1..(IF Len(q) > off + Len(vals) THEN Len(q) ELSE off + Len(vals)) |->
                 IF j > off /\ j <= off + Len(vals) THEN vals[j - off]
                 ELSE IF j <= Len(q) THEN q[j] ELSE GoNil])

\* q[:n]
Prefix(q, n) == [j \in 1..n |-> IF j <= Len(q) THEN q[j] ELSE GoNil]

FrameAt(m, i) == IF i >= 0 /\ i < Len(m.frames) THEN m.frames[i + 1] ELSE ZeroFrame

SetFrame(frames, i, f) ==
    [j \in 1..(IF Len(frames) > i + 1 THEN Len(frames) ELSE i + 1) |->
        IF j = i + 1 THEN f ELSE IF j <= Len(frames) THEN frames[j] ELSE ZeroFrame]

\* ------------------------------------------------------------------------
\* Operand stack (vm.go:712-743)

\* vm.stack[vm.sp], without moving sp
Top(s) == Slot(M(s).stack, M(s).sp)

pop(s) ==
    IF s.pan # "" THEN s
    ELSE IF M(s).sp < 0 \/ M(s).sp >= MaxStackDepth THEN Panic(s, IndexPanic)
    ELSE [s EXCEPT !.vms[s.v].stack = SetSlot(@, M(s).sp, GoNil),
                   !.vms[s.v].sp = @ - 1]

push(s, obj) ==
    IF s.pan # "" THEN s
    ELSE LET sp1 == M(s).sp + 1
             s1 == [s EXCEPT !.vms[s.v].sp = sp1]
         IN  IF sp1 < 0 \/ sp1 >= MaxStackDepth THEN Panic(s1, IndexPanic)
             ELSE [s1 EXCEPT !.vms[s.v].stack = SetSlot(@, sp1, obj)]

\* vm.activeCode: the compiled code the wrapper embeds, and its Globals.
ActiveCodeOf(s) == s.codes[M(s).activeCode].compiled

ActiveGlobals(s) == s.codes[M(s).activeCode].globals

\* The inline operand at ip, and the move of ip past it.
Operand(s) ==
    LET ins == ActiveCodeOf(s).instrs
    IN  IF M(s).ip >= 0 /\ M(s).ip < Len(ins) THEN ins[M(s).ip + 1] ELSE 0

fetch(s) ==
    IF s.pan # "" THEN s
    ELSE IF M(s).ip < 0 \/ M(s).ip >= Len(ActiveCodeOf(s).instrs)
         THEN Panic([s EXCEPT !.vms[s.v].ip = @ + 1], IndexPanic)
         ELSE [s EXCEPT !.vms[s.v].ip = @ + 1]

\* ------------------------------------------------------------------------
\* Loaded code registry (vm.go:847-877). A *compiler.Code is a name cc
\* and its content compiled = Code(cc).

\* loadRootCode(cc, vm.globals): a wrapper that owns a fresh globals
\* vector, filled from the host globals whose names match.
loadRootCode(s, cc, compiled) ==
    [s EXCEPT !.gvecs = Append(@, [i \in 1..Len(compiled.globals) |->
                                     IF compiled.globals[i] \in GlobalNames
                                     THEN InputGlobals(M(s).main)[compiled.globals[i]]
                                     ELSE GoNil]),
              !.codes = Append(@, [cc |-> cc, compiled |-> compiled,
                                   globals |-> Len(s.gvecs) + 1]),
              !.regs[M(s).loadedCode][cc] = Len(s.codes) + 1]

\* loadChildCode(rootLoaded, cc): a wrapper that shares the root's vector.
loadChildCode(s, cc, compiled) ==
    [s EXCEPT !.codes = Append(@, [cc |-> cc, compiled |-> compiled,
                                   globals |-> s.codes[Reg(s)[compiled.root]].globals]),
              !.regs[M(s).loadedCode][cc] = Len(s.codes) + 1]

\* vm.load(cc) when cc is not in the registry (vm.go:855-864)
loadNew(s, cc, compiled) ==
    IF compiled.root = cc THEN loadRootCode(s, cc, compiled)
    ELSE loadChildCode(IF Reg(s)[compiled.root] # 0 THEN s
                       ELSE loadRootCode(s, compiled.root, Code(compiled.root)),
                       cc, compiled)

\* vm.load(cc); the wrapper is then Reg(s)[cc].
load(s, cc) ==
    IF s.pan # "" \/ Reg(s)[cc] # 0 THEN s ELSE loadNew(s, cc, Code(cc))

\* copy(dst, src) on globals vectors
CopyGlobals(dst, src) ==
    [i \in 1..Len(dst) |-> IF i <= Len(src) THEN src[i] ELSE dst[i]]

\* reload that leaves the new vector as load made it.
copyNoGlobals(s, main, old) == s

\* copy(newWrappedMain.Globals, oldWrappedMain.Globals) (vm.go:875)
copyGlobals(s, main, old) ==
    IF s.pan # "" THEN s
    ELSE [s EXCEPT !.gvecs[s.codes[Reg(s)[main]].globals] = CopyGlobals(@, old)]

\* vm.reload(main): a fresh registry that holds only main, whose new
\* vector receives the old one's values.
reload(s, main) ==
    IF s.pan # "" THEN s
    ELSE IF Reg(s)[main] = 0 THEN Panic(s, "main code not loaded")
    ELSE copyGlobals(load([s EXCEPT !.regs = Append(@, EmptyReg),
                                    !.vms[s.v].loadedCode = Len(s.regs) + 1], main),
                     main, s.gvecs[s.codes[Reg(s)[main]].globals])

\* ------------------------------------------------------------------------
\* Frames (frame.go) and their activation (vm.go:879-925)

NewLocals(wrapper, values) ==
    [i \in 1..(IF Len(values) > wrapper.compiled.nlocals THEN Len(values)
               ELSE wrapper.compiled.nlocals) |->
        IF i <= Len(values) THEN values[i] ELSE GoNil]

\* frame.ActivateCode(code)
ActivateCode(code, wrapper) ==
    [code |-> code, fn |-> GoNil, returnAddr |-> 0, returnSp |-> 0,
     locals |-> NewLocals(wrapper, <<>>), capturedLocals |-> 0, defers |-> <<>>]

\* frame.ActivateFunction(fn, code, returnAddr, returnSp, locals)
ActivateFunction(fn, code, wrapper, returnAddr, returnSp, locals) ==
    [code |-> code, fn |-> fn, returnAddr |-> returnAddr, returnSp |-> returnSp,
     locals |-> NewLocals(wrapper, locals), capturedLocals |-> 0, defers |-> <<>>]

\* frame.Locals(): the captured vector once the locals are captured.
Locals(s, f) == IF f.capturedLocals # 0 THEN s.gvecs[f.capturedLocals] ELSE f.locals

\* frame.CaptureLocals() of frame i: the locals move, once, to a vector of
\* their own on the heap, which the frame uses from then on and which a
\* later activation of the frame leaves alone.
CaptureLocals(s, i) ==
    IF s.pan # "" \/ FrameAt(M(s), i).capturedLocals # 0 THEN s
    ELSE [s EXCEPT !.gvecs = Append(@, FrameAt(M(s), i).locals),
                   !.vms[s.v].frames =
                       SetFrame(@, i, [FrameAt(M(s), i) EXCEPT
                                          !.capturedLocals = Len(s.gvecs) + 1,
                                          !.locals = <<>>])]

\* frame.Defer(partial)
Defer(f, partial) == [f EXCEPT !.defers = Append(@, partial)]

\* q[:n+1], the slots above n cleared
Cut(q, n) == Trim(SubSeq(q, 1, IF Len(q) > n + 1 THEN n + 1 ELSE Len(q)))

\* vm.resumeFrame, the stack (vm.go:881-894): the frame's result, if one
\* is above sp, is kept on top of the restored stack.
restoreStack(s, sp) ==
    IF M(s).sp > sp
    THEN IF M(s).sp >= MaxStackDepth THEN Panic(s, IndexPanic)
         ELSE IF Top(s) = GoNil
         THEN [s EXCEPT !.vms[s.v].stack = Cut(@, sp), !.vms[s.v].sp = sp]
         ELSE push([s EXCEPT !.vms[s.v].stack = Cut(@, sp), !.vms[s.v].sp = sp], Top(s))
    ELSE [s EXCEPT !.vms[s.v].sp = sp]

\* vm.resumeFrame, the registers (vm.go:895-900)
restoreFrame(s, fp, ip) ==
    IF s.pan # "" THEN s
    ELSE IF fp < 0 \/ fp >= MaxFrameDepth
    THEN Panic([s EXCEPT !.vms[s.v].fp = fp, !.vms[s.v].ip = ip], IndexPanic)
    ELSE [s EXCEPT !.vms[s.v].fp = fp, !.vms[s.v].ip = ip,
                   !.vms[s.v].activeFrame = fp,
                   !.vms[s.v].activeCode = FrameAt(M(s), fp).code]

\* vm.resumeFrame(fp, ip, sp)
resumeFrame(s, fp, ip, sp) ==
    IF s.pan # "" THEN s ELSE restoreFrame(restoreStack(s, sp), fp, ip)

\* Frame fp is activated anew: the frame whose slot the last cell captured,
\* if it was that one, is gone.
frameReused(s, fp) ==
    IF s.obs.cellLoc.valid /\ s.obs.cellLoc.vm = s.v /\ s.obs.cellLoc.frame = fp
    THEN [s EXCEPT !.obs.cellLoc.live = FALSE]
    ELSE s

\* vm.activateCode(fp, ip, code)
activateCode(s, fp, ip, code) ==
    IF s.pan # "" THEN s
    ELSE IF fp < 0 \/ fp >= MaxFrameDepth
    THEN Panic([s EXCEPT !.vms[s.v].fp = fp, !.vms[s.v].ip = ip], IndexPanic)
    ELSE [frameReused(s, fp) EXCEPT !.vms[s.v].fp = fp, !.vms[s.v].ip = ip,
                   !.vms[s.v].activeFrame = fp,
                   !.vms[s.v].frames = SetFrame(@, fp, ActivateCode(code, s.codes[code])),
                   !.vms[s.v].activeCode = code]

\* vm.activateFunction once fn's code cc is loaded (vm.go:917-924)
enterFunction(s, fp, ip, fn, cc, returnAddr, returnSp, locals) ==
    IF s.pan # "" THEN s
    ELSE IF fp < 0 \/ fp >= MaxFrameDepth
    THEN Panic([s EXCEPT !.vms[s.v].fp = fp, !.vms[s.v].ip = ip], IndexPanic)
    ELSE [frameReused(s, fp) EXCEPT !.vms[s.v].fp = fp, !.vms[s.v].ip = ip,
                   !.vms[s.v].activeFrame = fp,
                   !.vms[s.v].frames =
                       SetFrame(@, fp, ActivateFunction(fn, Reg(s)[cc], s.codes[Reg(s)[cc]],
                                                        returnAddr, returnSp, locals)),
                   !.vms[s.v].activeCode = Reg(s)[cc]]

\* vm.activateFunction(fp, ip, fn, locals)
activateFunction(s, fp, ip, fn, locals) ==
    IF s.pan # "" THEN s
    ELSE enterFunction(load(s, Fn(fn.s).code), fp, ip, fn, Fn(fn.s).code,
                       M(s).ip, M(s).sp, locals)

\* ------------------------------------------------------------------------
\* The Go call stack. An entry is a Go function that waits for the eval it
\* started (run: Run; cf: callFunction; lm: loadModule), a callFunction
\* whose deferred closure is firing the callee's defers (dl), or the
\* caller of callFunction outside the VM (api: Call; thread: a spawned
\* task, spawned before it starts).

Entry ==
    [k |-> "", ctx |-> 0, spawn |-> FALSE, callVM |-> 0, spawnVM |-> 0, sawHalt |-> FALSE,
     baseFP |-> 0, baseIP |-> 0, baseSP |-> 0, baseFrame |-> 0, baseCode |-> 0,
     callFrame |-> 0, via |-> NoVia,
     defers |-> <<>>, i |-> 0, result |-> GoNil, err |-> "", pan |-> "",
     aborted |-> FALSE, fired |-> <<>>, errs |-> <<>>, body |-> "", name |-> "", mod |-> 0, code |-> 0, miss |-> FALSE,
     site |-> NoSite, fn |-> GoNil, args |-> <<>>]

K(s) == s.k[s.t]

TopEntry(s) == K(s)[Len(K(s))]

PushEntry(s, e) == [s EXCEPT !.k[s.t] = Append(@, e)]

PopEntry(s) == [s EXCEPT !.k[s.t] = SubSeq(@, 1, Len(@) - 1)]

SetTop(s, e) == [s EXCEPT !.k[s.t][Len(K(s))] = e]

\* The context the task's evals were given, and its Err().
Ctx(s) == K(s)[1].ctx

CtxCanceled == "context canceled"

CtxErr(s) == IF Ctx(s) \in s.cancelled THEN CtxCanceled ELSE ""

\* What a Go function returns to its caller: a value, an error, or a panic
\* that passes through. nd: the number of defers the callee had registered.
OkOut(val, nd) == [kind |-> "ok", err |-> "", val |-> val, nd |-> nd]

ErrOut(err) == [kind |-> "err", err |-> err, val |-> GoNil, nd |-> 0]

PanicOut(msg) == [kind |-> "panic", err |-> msg, val |-> GoNil, nd |-> 0]

\* The state with no panic or return in flight.
Clear(s) == [s EXCEPT !.pan = "", !.ret = "", !.err = ""]

\* The outcome of the operation that has just run in s.
OutOf(s) ==
    IF s.pan # "" THEN PanicOut(s.pan)
    ELSE IF s.ret = "err" THEN ErrOut(s.err)
    ELSE OkOut(GoNil, 0)

\* ------------------------------------------------------------------------
\* Host objects (package object, importer)

\* A host callable's Call.
HostCall(fn, args) == IF fn.s = "ok" THEN Nil ELSE ErrV("host error")

\* The value at name among the globals a module is bound to, if any.
Attr(names, globals, name) ==
    IF \E i \in 1..Len(names) : names[i] = name
    THEN globals[CHOOSE i \in 1..Len(names) : names[i] = name]
    ELSE GoNil

\* module.GetAttr(name): the module's global of that name, if it is set.
GetAttr(s, mod, name) ==
    IF s.mods[mod].globals = 0 THEN GoNil
    ELSE Attr(Code(s.mods[mod].code).globals, s.gvecs[s.mods[mod].globals], name)

\* checkCallArgs(fn, argc) (vm.go:992-1011): the error, "" for nil.
checkCallArgs(fn, argc) ==
    IF argc > Fn(fn.s).params \/ argc < Fn(fn.s).required
    THEN "type error: function takes a different number of arguments"
    ELSE ""

\* ------------------------------------------------------------------------
\* Observations (history variables; the VM does not read them)

NoObs ==
    [callDone |-> [valid |-> FALSE, argc |-> 0, spBefore |-> 0, spAfter |-> 0,
                   clean |-> TRUE, nd |-> 0],
     deferDone |-> [valid |-> FALSE, reg |-> <<>>, fired |-> <<>>, result |-> GoNil,
                    errs |-> <<>>, body |-> "", out |-> "", err |-> ""],
     runDone |-> [valid |-> FALSE, err |-> "", sawHalt |-> FALSE, ctxErr |-> ""],
     imports |-> <<>>,
     evals |-> [n \in ModNames |-> 0],
     importerCalls |-> [n \in ModNames |-> 0],
     apiDone |-> [valid |-> FALSE, vm |-> 0, rejected |-> FALSE, err |-> "",
                  wasRunning |-> FALSE, out |-> "", fault |-> ""],
     nestDone |-> [valid |-> FALSE, kind |-> "", out |-> "", fp |-> TRUE, ip |-> TRUE,
                   frame |-> TRUE, code |-> TRUE, spEntry |-> 0, spExit |-> 0],
     fromDone |-> [valid |-> FALSE, imports |-> 0, parentLen |-> 0, spBefore |-> 0,
                   spAfter |-> 0],
     unpackDone |-> [valid |-> FALSE, m |-> 0, n |-> 0, items |-> <<>>, err |-> "",
                     spBefore |-> 0, spAfter |-> 0, below |-> <<>>, stack |-> <<>>],
     jumpDone |-> [valid |-> FALSE, at |-> 0, d |-> 0, forward |-> TRUE,
                   conditional |-> FALSE, taken |-> FALSE, ip |-> 0],
     partialDone |-> [valid |-> FALSE, bound |-> <<>>, site |-> <<>>, passed |-> <<>>],
     cellLoc |-> [valid |-> FALSE, vm |-> 0, frame |-> 0, slot |-> 0, cell |-> GoNil,
                  val |-> GoNil, live |-> FALSE],
     cellRead |-> [valid |-> FALSE, op |-> "", got |-> GoNil, want |-> GoNil,
                   reused |-> FALSE],
     cellMade |-> [valid |-> FALSE, framesBack |-> 0, fp |-> 0, err |-> ""],
     lateDone |-> [valid |-> FALSE, vm |-> 0, kind |-> "", executed |-> FALSE,
                   returned |-> FALSE, atEnd |-> FALSE, err |-> "", ctxErr |-> ""],
     haltDone |-> [valid |-> FALSE, kind |-> "", after |-> FALSE, returned |-> FALSE,
                   err |-> ""],
     bindDone |-> [valid |-> FALSE, fn |-> "", args |-> <<>>, scratch |-> <<>>,
                   locals |-> <<>>],
     born |-> <<>>]

\* ------------------------------------------------------------------------
\* callFunction or loadModule (entry e) returns with outcome kind out: the
\* registers of s against those the function was entered with.
Returned(s, e, out) ==
    [s EXCEPT !.obs.nestDone =
        [valid |-> TRUE, kind |-> e.k, out |-> out,
         fp |-> M(s).fp = e.baseFP, ip |-> M(s).ip = e.baseIP,
         frame |-> M(s).activeFrame = e.baseFrame,
         code |-> M(s).activeCode = e.baseCode,
         spEntry |-> e.baseSP, spExit |-> M(s).sp]]

\* ------------------------------------------------------------------------
\* Call protocol (vm.go:757-845) and module loader (vm.go:670-698).
\* The Go functions call each other and eval re-enters them; each is written
\* here as the part of its body up to its next call or return, and leaves in
\* s.todo the call or return that follows.

ThenCall(s, fn, args, via) ==
    [s EXCEPT !.todo = [NoTodo EXCEPT !.op = "call", !.fn = fn, !.args = args, !.via = via]]

ThenCallFunction(s, fn, args, via) ==
    [s EXCEPT !.todo = [NoTodo EXCEPT !.op = "callFunction", !.fn = fn, !.args = args,
                                      !.via = via]]

ThenFireDefers(s) == [s EXCEPT !.todo = [NoTodo EXCEPT !.op = "fireDefers"]]

ThenDeliver(s, via, out) ==
    [s EXCEPT !.todo = [NoTodo EXCEPT !.op = "Deliver", !.via = via, !.out = out]]

ThenReturnFromEval(s, out) ==
    [s EXCEPT !.todo = [NoTodo EXCEPT !.op = "returnFromEval", !.out = out]]

ThenLoadModule(s, name, site) ==
    [s EXCEPT !.todo = [NoTodo EXCEPT !.op = "loadModule", !.name = name, !.site = site]]

ThenAfterLoad(s, site, out) ==
    [s EXCEPT !.todo = [NoTodo EXCEPT !.op = "afterLoad", !.site = site, !.out = out]]

ThenFromImportLoop(s, names, j, from, sp) ==
    [s EXCEPT !.todo = [NoTodo EXCEPT !.op = "fromImportLoop",
                                      !.site = Site("loop", names, j, from, sp)]]

\* The frame locals callFunction assembles in vm.tmp (vm.go:777-789):
\* the arguments, the defaults of the missing ones, the function itself if
\* it is named. argc is the number of locals.
FrameLocals(tmp, fn, f, named, args) ==
    LET argc == Len(args)
        tmp1 == CopyInto(tmp, 0, args)
        tmp2 == IF argc < f.params /\ argc < Len(f.defaults)
                THEN CopyInto(tmp1, argc, SubSeq(f.defaults, argc + 1, Len(f.defaults)))
                ELSE tmp1
        argc2 == IF argc < f.params THEN f.params ELSE argc
    IN  [tmp |-> IF named THEN SetSlot(tmp2, f.params, fn) ELSE tmp2,
         argc |-> IF named THEN argc2 + 1 ELSE argc2]

\* callFunction from the activation of the frame to the call of eval
\* (vm.go:792-811). A panic of the activation unwinds through the deferred
\* resumeFrame; the closure that fires the defers is not yet deferred.
evalFunction(s, e) ==
    IF s.pan # ""
    THEN ThenFireDefers(PushEntry(Clear(s), [e EXCEPT !.k = "dl", !.pan = s.pan,
                                                      !.aborted = TRUE]))
    ELSE PushEntry([s EXCEPT !.vms[s.v].frames[M(s).activeFrame + 1].returnAddr = StopSignal],
                   [e EXCEPT !.callFrame = M(s).activeFrame])

\* The frame of a call with fewer arguments than parameters is active (s):
\* its locals, the arguments and vm.tmp as the call found it.
bound(s, fn, args, scratch) ==
    IF s.pan # "" \/ Len(args) >= Fn(fn.s).params THEN s
    ELSE [s EXCEPT !.obs.bindDone =
            [valid |-> TRUE, fn |-> fn.s, args |-> args, scratch |-> scratch,
             locals |-> FrameAt(M(s), M(s).activeFrame).locals]]

\* callFunction once the arguments are checked (vm.go:772-792)
enterCall(s, fn, args, locals, via) ==
    evalFunction(bound(activateFunction([s EXCEPT !.vms[s.v].tmp = locals.tmp],
                                        M(s).fp + 1, 0, fn,
                                        Prefix(locals.tmp, locals.argc)),
                       fn, args, M(s).tmp),
                 [Entry EXCEPT !.k = "cf", !.baseFP = M(s).fp, !.baseIP = M(s).ip,
                               !.baseSP = M(s).sp, !.baseFrame = M(s).activeFrame,
                               !.baseCode = M(s).activeCode, !.via = via])

\* vm.callFunction(ctx, fn, args) up to the eval of the callee.
callFunction(s, fn, args, via) ==
    IF checkCallArgs(fn, Len(args)) # ""
    THEN ThenDeliver(s, via, ErrOut(checkCallArgs(fn, Len(args))))
    ELSE enterCall(s, fn, args,
                   FrameLocals(M(s).tmp, fn, Fn(fn.s), Code(Fn(fn.s).code).named, args),
                   via)

\* The return of callFunction, after its deferred resumeFrame (s): the
\* panic in flight, else the error, else the result.
functionDone(s, e) ==
    LET pan == IF s.pan # "" THEN s.pan ELSE e.pan
        out == IF pan # "" THEN PanicOut(pan)
               ELSE IF e.err # "" THEN ErrOut(e.err)
               ELSE OkOut(e.result, Len(e.defers))
        s2 == PopEntry(Clear(Returned(s, e, out.kind)))
    IN  ThenDeliver(IF Len(e.defers) = 0 THEN s2
                    ELSE [s2 EXCEPT !.obs.deferDone =
                            [valid |-> TRUE,
                             reg |-> [j \in 1..Len(e.defers) |-> PartialFunction(e.defers[j]).s],
                             fired |-> e.fired,
                             result |-> e.result,
                             errs |-> e.errs, body |-> e.body,
                             out |-> out.kind, err |-> out.err]],
                    e.via, out)

\* The deferred functions of callFunction, in the order Go runs them: the
\* closure that fires callFrame.defers (vm.go:801-808), then resumeFrame.
fireDefers(s) ==
    LET e == TopEntry(s)
    IN  IF ~e.aborted /\ e.i < Len(e.defers)
        THEN ThenCall(SetTop(s, [e EXCEPT !.i = @ + 1,
                                          !.fired = Append(@, PartialFunction(e.defers[e.i + 1]).s)]),
                      PartialFunction(e.defers[e.i + 1]), PartialArgs(e.defers[e.i + 1]),
                      Via("defer", 0, 0, <<>>))
        ELSE functionDone(resumeFrame(Clear(s), e.baseFP, e.baseIP, e.baseSP), e)

\* vm.call(ctx, fn, args)
call(s, fn, args, via) ==
    CASE fn.t = "function" -> ThenCallFunction(s, fn, args, via)
      [] fn.t = "partial" ->
            LET argc == Len(args)
                expandedCount == argc + Len(PartialArgs(fn))
                tmp1 == CopyInto(CopyInto(M(s).tmp, 0, args), argc, PartialArgs(fn))
            IN  IF expandedCount > MaxArgs
                THEN ThenDeliver(s, via, ErrOut("exec error: max arguments limit exceeded"))
                ELSE ThenCall([s EXCEPT !.vms[s.v].tmp = tmp1,
                                        !.obs.partialDone =
                                            [valid |-> TRUE, bound |-> PartialArgs(fn),
                                             site |-> args,
                                             passed |-> Prefix(tmp1, expandedCount)]],
                              PartialFunction(fn), Prefix(tmp1, expandedCount), via)
      [] fn.t = "builtin" ->
            IF HostCall(fn, args).t = "error"
            THEN ThenDeliver(s, via, ErrOut(HostCall(fn, args).s))
            ELSE ThenDeliver(s, via, OkOut(HostCall(fn, args), 0))
      [] OTHER -> ThenDeliver(s, via, ErrOut("type error: object is not callable"))

\* call has the result of the Call instruction's callee: vm.push(result)
\* (vm.go:825, 840), s the state after the push.
pushedResult(s, via, out) ==
    IF s.pan # "" THEN ThenReturnFromEval(s, PanicOut(s.pan))
    ELSE [s EXCEPT !.obs.callDone =
            [valid |-> TRUE, argc |-> via.argc,
             spBefore |-> via.sp + 1 + via.argc,
             spAfter |-> M(s).sp,
             clean |-> M(s).stack = SetSlot(via.below, via.sp + 1, out.val),
             nd |-> out.nd]]

\* The closure drops the error of a deferred call.
firedOneErrorDropped(s, e, out) ==
    CASE out.kind = "ok" ->
            IF s.pan # ""
            THEN ThenFireDefers(SetTop(Clear(s), [e EXCEPT !.pan = s.pan, !.aborted = TRUE]))
            ELSE ThenFireDefers(SetTop(s, [e EXCEPT !.errs = Append(@, "")]))
      [] out.kind = "err" ->
            ThenFireDefers(SetTop(s, [e EXCEPT !.errs = Append(@, out.err)]))
      [] OTHER ->
            ThenFireDefers(SetTop(s, [e EXCEPT !.pan = out.err, !.aborted = TRUE]))

\* The closure that fires the defers has the outcome of one deferred call
\* (vm.go:803-806), s the state after call's push of an ok result. errs
\* keeps the error of each deferred call that has returned, "" for nil.
firedOne(s, e, out) ==
    CASE out.kind = "ok" ->
            IF s.pan # ""
            THEN ThenFireDefers(SetTop(Clear(s), [e EXCEPT !.pan = s.pan, !.aborted = TRUE]))
            ELSE ThenFireDefers(SetTop(s, [e EXCEPT !.errs = Append(@, "")]))
      [] out.kind = "err" ->
            ThenFireDefers(SetTop(s, [e EXCEPT !.result = GoNil, !.err = out.err,
                                               !.errs = Append(@, out.err)]))
      [] OTHER ->
            ThenFireDefers(SetTop(s, [e EXCEPT !.pan = out.err, !.aborted = TRUE]))

\* callFunction returns to Call, which returns its result and error as
\* they are (vm.go:754); a panic passes through Call to the embedder.
callReturns(s, out) ==
    [s EXCEPT !.obs.apiDone.out = out.kind,
              !.obs.apiDone.err = IF out.kind = "err" THEN out.err ELSE "",
              !.obs.apiDone.fault = IF out.kind = "panic" THEN out.err ELSE ""]

\* The return of call or callFunction to its caller: the Call instruction
\* (call pushes the result, or eval returns the error), the closure firing
\* defers, Call, or a task.
Deliver(s, via, out) ==
    CASE via.kind = "opcall" ->
            IF out.kind = "ok" THEN pushedResult(push(s, out.val), via, out)
            ELSE ThenReturnFromEval(s, out)
      [] via.kind = "defer" ->
            firedOne(IF out.kind = "ok" THEN push(s, out.val) ELSE s, TopEntry(s), out)
      [] via.kind = "api" -> callReturns(PopEntry(s), out)
      [] OTHER -> PopEntry(s)

\* Run's eval has returned: its deferred functions set running = false
\* and recover a panic (vm.go:126-130, 155).
runReturns(s, e, out) ==
    [PopEntry(s) EXCEPT
        !.vms[s.v].running = FALSE,
        !.obs.haltDone = IF @.valid
                         THEN [@ EXCEPT !.returned = TRUE,
                                        !.err = IF out.kind = "panic"
                                                THEN "panic: " \o out.err ELSE out.err]
                         ELSE @,
        !.obs.runDone = [valid |-> TRUE,
                         err |-> IF out.kind = "panic" THEN "panic: " \o out.err
                                 ELSE out.err,
                         sawHalt |-> e.sawHalt, ctxErr |-> CtxErr(s)]]

\* callFunction's eval has returned (vm.go:811-814), s the state after
\* the pop of the result: the deferred functions follow.
functionReturns(s, e, out, tos, defers) ==
    ThenFireDefers(SetTop(Clear(s),
        [e EXCEPT !.k = "dl", !.defers = defers, !.i = 0,
                  !.result = IF out.kind = "ok" /\ s.pan = "" THEN tos ELSE GoNil,
                  !.err = IF out.kind = "err" THEN out.err ELSE "",
                  !.body = IF out.kind = "err" THEN out.err ELSE "",
                  !.pan = IF out.kind = "panic" THEN out.err ELSE s.pan]))

\* The return of loadModule after its deferred resumeFrame (s).
moduleDone(s, e, out) ==
    LET out2 == IF s.pan # "" THEN PanicOut(s.pan)
                ELSE IF out.kind = "ok" THEN OkOut(ModV(e.mod), 0)
                ELSE out
        s3 == PopEntry(Clear(Returned(s, e, out2.kind)))
    IN  ThenAfterLoad(IF out2.kind = "ok"
                      THEN [s3 EXCEPT !.obs.imports =
                              Append(@, [vm |-> s.v, name |-> e.name, mod |-> e.mod, miss |-> TRUE])]
                      ELSE s3,
                      e.site, out2)

\* loadModule's eval has returned (vm.go:691-697): bind the globals and
\* cache the module, or return the error; then the deferred resumeFrame.
moduleReturns(s, e, out) ==
    moduleDone(resumeFrame(IF out.kind = "ok"
                           THEN [s EXCEPT !.mods[e.mod].globals = s.codes[e.code].globals,
                                          !.modmaps[M(s).modules][e.name] = e.mod]
                           ELSE s,
                           e.baseFP, e.baseIP, e.baseSP),
               e, out)

\* eval has returned to the Go function on top of the stack.
returnFromEval(s, out) ==
    CASE TopEntry(s).k = "run" -> runReturns(Clear(s), TopEntry(s), out)
      [] TopEntry(s).k = "cf" ->
            functionReturns(IF out.kind = "ok" THEN pop(Clear(s)) ELSE Clear(s),
                            TopEntry(s), out, Top(s),
                            FrameAt(M(s), TopEntry(s).callFrame).defers)
      [] OTHER -> moduleReturns(Clear(s), TopEntry(s), out)

\* loadModule from the load of the module's code to the call of eval
\* (vm.go:686-691), s the state after the load.
evalModule(s, e, cc) ==
    LET s2 == activateCode(s, e.baseFP + 1, 0, Reg(s)[cc])
    IN  IF s2.pan # "" THEN ThenReturnFromEval(s2, PanicOut(s2.pan))
        ELSE PushEntry([s2 EXCEPT !.obs.evals[e.name] = @ + 1],
                       [e EXCEPT !.code = Reg(s)[cc]])

\* vm.loadModule(ctx, name) up to the eval of the module's code. The
\* importer gives a new module object for the code of the name.
loadModule(s, name, site) ==
    IF Modules(s)[name] # 0
    THEN ThenAfterLoad([s EXCEPT !.obs.imports =
                          Append(@, [vm |-> s.v, name |-> name, mod |-> Modules(s)[name],
                                     miss |-> FALSE])],
                       site, OkOut(ModV(Modules(s)[name]), 0))
    ELSE IF ~M(s).importer
    THEN ThenAfterLoad(s, site, ErrOut("exec error: imports are disabled"))
    ELSE IF ImporterCode(name) = ""
    THEN ThenAfterLoad([s EXCEPT !.obs.importerCalls[name] = @ + 1], site,
                       ErrOut("import error: module not found"))
    ELSE evalModule(load([s EXCEPT !.obs.importerCalls[name] = @ + 1,
                                   !.mods = Append(@, [name |-> name,
                                                       code |-> ImporterCode(name),
                                                       globals |-> 0])],
                         ImporterCode(name)),
                    [Entry EXCEPT !.k = "lm", !.baseFP = M(s).fp, !.baseIP = M(s).ip,
                                  !.baseSP = M(s).sp, !.baseFrame = M(s).activeFrame,
                                  !.baseCode = M(s).activeCode, !.name = name,
                                  !.mod = Len(s.mods) + 1, !.site = site],
                    ImporterCode(name))

\* op.FromImport has the attribute of the parent module (vm.go:564-569).
pushAttr(s, attr, site) ==
    IF attr = GoNil
    THEN ThenReturnFromEval(s, ErrOut("import error: cannot import name"))
    ELSE IF push(s, attr).pan # ""
    THEN ThenReturnFromEval(push(s, attr), PanicOut(push(s, attr).pan))
    ELSE ThenFromImportLoop(push(s, attr), site.names, site.j + 1, site.from, site.sp)

\* op.Import or op.FromImport has a module: vm.push(module), s the state
\* after the push.
pushedModule(s, site) ==
    IF s.pan # "" THEN ThenReturnFromEval(s, PanicOut(s.pan))
    ELSE IF site.kind = "import" THEN s
    ELSE ThenFromImportLoop(s, site.names, site.j + 1, site.from, site.sp)

\* The return of loadModule to op.Import (vm.go:526-530) or to
\* op.FromImport (vm.go:555-570).
afterLoad(s, site, out) ==
    CASE out.kind = "panic" -> ThenReturnFromEval(s, out)
      [] site.kind = "import" ->
            IF out.kind = "ok" THEN pushedModule(push(s, out.val), site)
            ELSE ThenReturnFromEval(s, out)
      [] site.kind = "sub" ->
            IF out.kind = "ok" THEN pushedModule(push(s, out.val), site)
            ELSE \* otherwise, the name is a symbol inside a module
                 ThenLoadModule(s, Join(site.from), [site EXCEPT !.kind = "parent"])
      [] OTHER ->
            IF out.kind = "ok"
            THEN pushAttr(s, GetAttr(s, out.val.n, site.names[site.j]), site)
            ELSE ThenReturnFromEval(s, out)

\* for _, name := range names, from names[j]
fromImportLoop(s, names, j, from, sp) ==
    IF j > Len(names)
    THEN [s EXCEPT !.obs.fromDone =
            [valid |-> TRUE, imports |-> Len(names), parentLen |-> Len(from),
             spBefore |-> sp + Len(names) + Len(from), spAfter |-> M(s).sp]]
    ELSE ThenLoadModule(s, Join(from \o <<names[j]>>), Site("sub", names, j, from, sp))

\* The call or return that s.todo names.
Resolve(s, t) ==
    CASE t.op = "call" -> call(s, t.fn, t.args, t.via)
      [] t.op = "callFunction" -> callFunction(s, t.fn, t.args, t.via)
      [] t.op = "fireDefers" -> fireDefers(s)
      [] t.op = "Deliver" -> Deliver(s, t.via, t.out)
      [] t.op = "returnFromEval" -> returnFromEval(s, t.out)
      [] t.op = "loadModule" -> loadModule(s, t.name, t.site)
      [] t.op = "afterLoad" -> afterLoad(s, t.site, t.out)
      [] OTHER -> fromImportLoop(s, t.site.names, t.site.j, t.site.from, t.site.sp)

RECURSIVE Settle(_)
\* Runs the Go code to the point where some eval loop is at its head, or
\* the task has returned.
Settle(s) ==
    IF s.todo.op = "" THEN s ELSE Settle(Resolve([s EXCEPT !.todo = NoTodo], s.todo))

\* ------------------------------------------------------------------------
\* Clone and spawn (vm.go:927-990)

NewVM(main, conc) ==
    [ip |-> 0, sp |-> -1, fp |-> 0, halt |-> 0, stack |-> <<>>, frames |-> <<>>,
     tmp |-> <<>>, activeFrame |-> -1, activeCode |-> 0, main |-> main,
     importer |-> TRUE, modules |-> 1, loadedCode |-> 1, running |-> FALSE,
     concAllowed |-> conc]

\* What a VM owns: its fields, its loaded-code registry, its module cache.
Priv(vmseq, regseq, modseq, v) ==
    [vm |-> vmseq[v], reg |-> regseq[vmseq[v].loadedCode],
     modules |-> modseq[vmseq[v].modules]]

\* clone.activateCode(0, vm.ip, clone.load(clone.main)) (vm.go:975), s the
\* state after the load, with the clone as the acting VM.
activateClone(s, parentIp) == activateCode(s, 0, parentIp, Reg(s)[M(s).main])

\* The clone is made (s1); control is back in the parent p of state s.
cloned(s1, s, api) ==
    [s1 EXCEPT !.v = s.v,
               !.obs.born = Append(@, [parent |-> s.v, codesAt |-> Len(s.codes),
                                       parentIp |-> M(s).ip, runsAt |-> s.runs,
                                       clone |-> M(s1),
                                       before |-> Priv(s.vms, s.regs, s.modmaps, s.v),
                                       after |-> Priv(s1.vms, s1.regs, s1.modmaps, s.v),
                                       api |-> api])]

\* Clone that hands the parent's loadedCode map to the clone instead of a
\* snapshot of it.
CloneSharingLoadedCode(s, api) ==
    cloned(activateClone(
               load([s EXCEPT !.vms = Append(@, [NewVM(M(s).main, FALSE) EXCEPT
                                                    !.importer = FALSE,
                                                    !.modules = Len(s.modmaps) + 1,
                                                    !.loadedCode = M(s).loadedCode]),
                              !.k = Append(@, <<>>),
                              !.modmaps = Append(@, Modules(s)),
                              !.regs = Append(@, Reg(s)),
                              !.v = Len(s.vms) + 1],
                    M(s).main),
               M(s).ip),
           s, api)

\* vm.Clone(): the clone is the last of the VMs.
Clone(s, api) ==
    cloned(activateClone(
               load([s EXCEPT !.vms = Append(@, [NewVM(M(s).main, FALSE) EXCEPT
                                                    !.importer = FALSE,
                                                    !.modules = Len(s.modmaps) + 1,
                                                    !.loadedCode = Len(s.regs) + 1]),
                              !.k = Append(@, <<>>),
                              !.modmaps = Append(@, Modules(s)),
                              !.regs = Append(@, Reg(s)),
                              !.v = Len(s.vms) + 1],
                    M(s).main),
               M(s).ip),
           s, api)

\* object.NewThread(ctx, fn, args) for the clone made in s: the new task
\* waits to be scheduled. The context carries the call function and the
\* spawn function, each a method of a VM (callVM, spawnVM).
NewThread(s, ctx, callVM, spawnVM, fn, args) ==
    [s EXCEPT !.k[Len(s.vms)] = <<[Entry EXCEPT !.k = "spawned", !.ctx = ctx,
                                                !.spawn = TRUE, !.callVM = callVM,
                                                !.spawnVM = spawnVM,
                                                !.fn = fn, !.args = args]>>]

\* spawnFunction that leaves the parent's call function in the context of
\* the new task.
spawnFunctionOnParent(s, fn, args) ==
    NewThread(Clone(s, FALSE), Ctx(s), s.v, Len(s.vms) + 1, fn, args)

\* vm.spawnFunction(ctx, fn, args): the context of the new task names the
\* clone's callFunction and spawnFunction (vm.go:985-986).
spawnFunction(s, fn, args) ==
    NewThread(Clone(s, FALSE), Ctx(s), Len(s.vms) + 1, Len(s.vms) + 1, fn, args)

\* ------------------------------------------------------------------------
\* Instructions (vm.go:240-665). dispatch runs the fetches and pops of a
\* case; the operators below are what the case does with them.

RECURSIVE popArgs(_, _)
\* for argIndex := argc - 1; argIndex >= 0; argIndex-- { vm.tmp[argIndex] = vm.pop() }
popArgs(s, argIndex) ==
    IF argIndex < 0 \/ s.pan # "" THEN s
    ELSE IF pop(s).pan # "" THEN pop(s)
    ELSE IF argIndex >= MaxArgs THEN Panic(pop(s), IndexPanic)
    ELSE popArgs([pop(s) EXCEPT !.vms[s.v].tmp = SetSlot(@, argIndex, Top(s))],
                 argIndex - 1)

RECURSIVE popInto(_, _, _)
\* for i := argc - 1; i >= 0; i-- { args[i] = vm.pop() }
popInto(s, args, i) ==
    IF i < 0 \/ s.pan # "" THEN [s |-> s, args |-> args]
    ELSE popInto(pop(s), [args EXCEPT ![i + 1] = Top(s)], i - 1)

RECURSIVE popStrings(_, _, _)
\* Pops n strings: the state, and the strings in the order popped.
popStrings(s, n, acc) ==
    IF n = 0 \/ s.pan # "" \/ s.ret # "" THEN [s |-> s, strs |-> acc]
    ELSE IF pop(s).pan # "" THEN [s |-> pop(s), strs |-> acc]
    ELSE IF Top(s) = GoNil THEN [s |-> Panic(pop(s), NilPanic), strs |-> acc]
    ELSE IF Top(s).t # "string"
    THEN [s |-> Fail(pop(s), "type error: object is not a string"), strs |-> acc]
    ELSE popStrings(pop(s), n - 1, Append(acc, Top(s).s))

Reverse(q) == [j \in 1..Len(q) |-> q[Len(q) + 1 - j]]

\* vm.push(vec[idx]): LoadConst, LoadFast, LoadGlobal
opLoad(s, vec, idx) ==
    IF s.pan # "" THEN s
    ELSE IF idx >= Len(vec) THEN Panic(s, IndexPanic)
    ELSE push(s, vec[idx + 1])

\* LoadFast or StoreFast of slot idx of the frame is done (s): if it is the
\* slot the last cell captured, the value written or the value read.
slotAccess(s, op, frame, idx, obj) ==
    IF s.pan # "" \/ s.ret # ""
       \/ ~(s.obs.cellLoc.valid /\ s.obs.cellLoc.live /\ s.obs.cellLoc.vm = s.v
            /\ s.obs.cellLoc.frame = frame /\ s.obs.cellLoc.slot = idx)
    THEN s
    ELSE IF op = "StoreFast" THEN [s EXCEPT !.obs.cellLoc.val = obj]
    ELSE [s EXCEPT !.obs.cellRead = [valid |-> TRUE, op |-> op, got |-> Top(s),
                                     want |-> s.obs.cellLoc.val, reused |-> FALSE]]

\* LoadFree or StoreFree through the cell is done (s): if it is the last
\* cell made, the value written or the value read.
cellAccess(s, op, cell, obj) ==
    IF s.pan # "" \/ s.ret # "" \/ ~(s.obs.cellLoc.valid /\ s.obs.cellLoc.cell = cell)
    THEN s
    ELSE IF op = "StoreFree" THEN [s EXCEPT !.obs.cellLoc.val = obj]
    ELSE [s EXCEPT !.obs.cellRead = [valid |-> TRUE, op |-> op, got |-> Top(s),
                                     want |-> s.obs.cellLoc.val,
                                     reused |-> ~s.obs.cellLoc.live]]

\* vm.activeFrame.Locals()[idx] = obj
opStoreFast(s, frame, idx, obj) ==
    IF s.pan # "" THEN s
    ELSE IF idx >= Len(Locals(s, FrameAt(M(s), frame))) THEN Panic(s, IndexPanic)
    ELSE IF FrameAt(M(s), frame).capturedLocals # 0
    THEN [s EXCEPT !.gvecs[FrameAt(M(s), frame).capturedLocals][idx + 1] = obj]
    ELSE [s EXCEPT !.vms[s.v].frames[frame + 1].locals[idx + 1] = obj]

\* cell.Value()
Value(s, cell) == s.gvecs[cell.a[1].n][cell.a[2].n + 1]

\* cell.Set(obj)
Set(s, cell, obj) == [s EXCEPT !.gvecs[cell.a[1].n][cell.a[2].n + 1] = obj]

\* vm.push(vm.activeFrame.fn.FreeVars()[idx].Value())
opLoadFree(s, fn, idx) ==
    IF s.pan # "" THEN s
    ELSE IF fn = GoNil THEN Panic(s, NilPanic)
    ELSE IF idx >= Len(FreeVars(fn)) THEN Panic(s, IndexPanic)
    ELSE cellAccess(push(s, Value(s, FreeVars(fn)[idx + 1])), "LoadFree",
                    FreeVars(fn)[idx + 1], GoNil)

\* vm.activeFrame.fn.FreeVars()[idx].Set(obj)
opStoreFree(s, fn, idx, obj) ==
    IF s.pan # "" THEN s
    ELSE IF fn = GoNil THEN Panic(s, NilPanic)
    ELSE IF idx >= Len(FreeVars(fn)) THEN Panic(s, IndexPanic)
    ELSE cellAccess(Set(s, FreeVars(fn)[idx + 1], obj), "StoreFree",
                    FreeVars(fn)[idx + 1], obj)

RECURSIVE popCells(_, _, _)
\* Pops n cells: the state, and the cells with the first popped last.
popCells(s, n, free) ==
    IF n = 0 \/ s.pan # "" \/ s.ret # "" THEN [s |-> s, free |-> free]
    ELSE IF pop(s).pan # "" THEN [s |-> pop(s), free |-> free]
    ELSE IF Top(s).t # "cell"
    THEN [s |-> Fail(pop(s), "exec error: expected cell"), free |-> free]
    ELSE popCells(pop(s), n - 1, <<Top(s)>> \o free)

\* fn := vm.activeCode.Constants[constIndex].(*object.Function);
\* vm.push(object.NewClosure(fn, free))
opLoadClosure(r, consts, constIndex) ==
    IF r.s.pan # "" \/ r.s.ret # "" THEN r.s
    ELSE IF constIndex >= Len(consts) THEN Panic(r.s, IndexPanic)
    ELSE IF consts[constIndex + 1].t # "function"
    THEN Panic(r.s, "interface conversion: object is not a function")
    ELSE push(r.s, NewClosure(consts[constIndex + 1], r.free))

\* MakeCell is done (s): the cell on top of the stack stands for slot
\* symbolIndex of frame frameIndex, which holds val.
madeCell(s, frameIndex, symbolIndex, framesBack, val) ==
    IF s.pan # "" THEN s
    ELSE [s EXCEPT !.obs.cellLoc = [valid |-> TRUE, vm |-> s.v, frame |-> frameIndex,
                                    slot |-> symbolIndex, cell |-> Top(s),
                                    val |-> val, live |-> TRUE],
                   !.obs.cellMade = [valid |-> TRUE, framesBack |-> framesBack,
                                     fp |-> M(s).fp, err |-> ""]]

\* MakeCell fails.
noCell(s, framesBack) ==
    Fail([s EXCEPT !.obs.cellMade = [valid |-> TRUE, framesBack |-> framesBack,
                                     fp |-> M(s).fp,
                                     err |-> "exec error: no frame at depth"]],
         "exec error: no frame at depth")

\* vm.push(object.NewCell(&locals[symbolIndex])), locals the captured
\* locals of frame frameIndex
newCell(s, frameIndex, symbolIndex, framesBack) ==
    IF s.pan # "" THEN s
    ELSE IF symbolIndex >= Len(Locals(s, FrameAt(M(s), frameIndex)))
    THEN Panic(s, IndexPanic)
    ELSE madeCell(push(s, NewCell(FrameAt(M(s), frameIndex).capturedLocals, symbolIndex)),
                  frameIndex, symbolIndex, framesBack,
                  Locals(s, FrameAt(M(s), frameIndex))[symbolIndex + 1])

\* MakeCell that makes the cell of a copy of the locals.
opMakeCellOfCopy(s, symbolIndex, framesBack) ==
    IF s.pan # "" THEN s
    ELSE IF M(s).fp - framesBack < 0 THEN noCell(s, framesBack)
    ELSE IF symbolIndex >= Len(Locals(s, FrameAt(M(s), M(s).fp - framesBack)))
    THEN Panic(s, IndexPanic)
    ELSE madeCell(push([s EXCEPT !.gvecs =
                                   Append(@, Locals(s, FrameAt(M(s), M(s).fp - framesBack)))],
                       NewCell(Len(s.gvecs) + 1, symbolIndex)),
                  M(s).fp - framesBack, symbolIndex, framesBack,
                  Locals(s, FrameAt(M(s), M(s).fp - framesBack))[symbolIndex + 1])

\* case op.MakeCell (vm.go:305-314), the operands fetched
opMakeCell(s, symbolIndex, framesBack) ==
    IF s.pan # "" THEN s
    ELSE IF M(s).fp - framesBack < 0 THEN noCell(s, framesBack)
    ELSE newCell(CaptureLocals(s, M(s).fp - framesBack), M(s).fp - framesBack,
                 symbolIndex, framesBack)

\* vm.activeCode.Globals[idx] = obj
opStoreGlobal(s, globals, idx, obj) ==
    IF s.pan # "" THEN s
    ELSE IF idx >= Len(s.gvecs[globals]) THEN Panic(s, IndexPanic)
    ELSE [s EXCEPT !.gvecs[globals][idx + 1] = obj]

\* vm.call(ctx, obj, vm.tmp[:argc])
opCall(s, obj, argc) ==
    IF s.pan # "" THEN s
    ELSE ThenCall(s, obj, Prefix(M(s).tmp, argc),
                  Via("opcall", argc, M(s).sp, M(s).stack))

\* obj := vm.pop(); vm.push(object.NewPartial(obj, args))
opPartial(r) == push(pop(r.s), NewPartial(Top(r.s), r.args))

\* if returnAddr == StopSignal { return nil }
opReturnValue(s, returnAddr) == IF returnAddr = StopSignal THEN Stop(s) ELSE s

\* A jump instruction at address at with operand d has run; s is the state
\* it leaves.
jumped(s, at, d, forward, conditional, taken) ==
    [s EXCEPT !.obs.jumpDone =
        [valid |-> TRUE, at |-> at, d |-> d, forward |-> forward,
         conditional |-> conditional, taken |-> taken, ip |-> M(s).ip]]

\* The four PopJump instructions: forward or backward, on true or on false;
\* s is the state after the fetch of the operand, delta the operand less 2.
opPopJump(s, tos, delta, forward, onTrue) ==
    IF s.pan # "" THEN s
    ELSE IF tos = GoNil THEN Panic(s, NilPanic)
    ELSE IF IsTruthy(tos) = onTrue
    THEN jumped([s EXCEPT !.vms[s.v].ip = IF forward THEN @ + delta ELSE @ - delta],
                M(s).ip - 2, delta + 2, forward, TRUE, TRUE)
    ELSE jumped(s, M(s).ip - 2, delta + 2, forward, TRUE, FALSE)

\* vm.ip = base + delta, vm.ip = base - delta
opJump(s, base, delta, forward) ==
    IF s.pan # "" THEN s
    ELSE jumped([s EXCEPT !.vms[s.v].ip = IF forward THEN base + delta ELSE base - delta],
                base, delta, forward, FALSE, TRUE)

opImport(s, name) ==
    IF s.pan # "" THEN s
    ELSE IF name = GoNil THEN Panic(s, NilPanic)
    ELSE IF name.t # "string" THEN Fail(s, "type error: object is not a string")
    ELSE ThenLoadModule(s, name.s, Site("import", <<>>, 0, <<>>, 0))

\* op.FromImport once names (ns) and from (fs) are popped (vm.go:553)
fromImport(fs, names) ==
    IF fs.s.pan # "" \/ fs.s.ret # "" THEN fs.s
    ELSE ThenFromImportLoop(fs.s, names, 1, Reverse(fs.strs), M(fs.s).sp)

opFromImport(s, parentLen, importsCount) ==
    IF s.pan # "" THEN s
    ELSE IF importsCount > 255 THEN Fail(s, "exec error: invalid imports count")
    ELSE fromImport(popStrings(popStrings(s, importsCount, <<>>).s, parentLen, <<>>),
                    popStrings(s, importsCount, <<>>).strs)

RECURSIVE pushAll(_, _, _)
\* for { val, ok := iter.Next(ctx); if !ok { break }; vm.push(val) }, the
\* iterator of a list yielding its items from the first to the last.
pushAll(s, items, i) ==
    IF i > Len(items) \/ s.pan # "" THEN s ELSE pushAll(push(s, items[i]), items, i + 1)

\* op.Unpack has run on the container (s1 the state it leaves, s the
\* state once the container is popped).
unpacked(s1, s, container, nameCount) ==
    IF s1.pan # "" THEN s1
    ELSE [s1 EXCEPT !.obs.unpackDone =
            [valid |-> TRUE, m |-> Len(container.a), n |-> nameCount,
             items |-> container.a, err |-> s1.err,
             spBefore |-> M(s).sp + 1, spAfter |-> M(s1).sp,
             below |-> M(s).stack, stack |-> M(s1).stack]]

\* Unpack that pushes the elements from the last to the first.
opUnpackReversed(s, containerObj, nameCount) ==
    IF s.pan # "" THEN s
    ELSE IF containerObj = GoNil THEN Panic(s, NilPanic)
    ELSE IF containerObj.t # "list" THEN Fail(s, "type error: object is not a container")
    ELSE IF Len(containerObj.a) # nameCount
    THEN unpacked(Fail(s, "exec error: unpack count mismatch: "
                          \o ToString(Len(containerObj.a)) \o " != " \o ToString(nameCount)),
                  s, containerObj, nameCount)
    ELSE unpacked(pushAll(s, Reverse(containerObj.a), 1), s, containerObj, nameCount)

\* op.Unpack once the container is popped and the count fetched
\* (vm.go:577-594)
opUnpack(s, containerObj, nameCount) ==
    IF s.pan # "" THEN s
    ELSE IF containerObj = GoNil THEN Panic(s, NilPanic)
    ELSE IF containerObj.t # "list" THEN Fail(s, "type error: object is not a container")
    ELSE IF Len(containerObj.a) # nameCount
    THEN unpacked(Fail(s, "exec error: unpack count mismatch: "
                          \o ToString(Len(containerObj.a)) \o " != " \o ToString(nameCount)),
                  s, containerObj, nameCount)
    ELSE unpacked(pushAll(s, containerObj.a, 1), s, containerObj, nameCount)

\* object.Spawn(ctx, partial.Function(), partial.Args()): the spawn
\* function of the context is the spawnFunction of VM spawnVM.
opGo(s, obj, spawnVM) ==
    IF s.pan # "" THEN s
    ELSE IF obj.t # "partial" THEN Fail(s, "type error: object is not a partial")
    ELSE IF spawnVM = 0 THEN Fail(s, "spawn function not found in context")
    ELSE [spawnFunction([s EXCEPT !.v = spawnVM], PartialFunction(obj), PartialArgs(obj))
            EXCEPT !.v = s.v]

opDefer(s, obj, frame) ==
    IF s.pan # "" THEN s
    ELSE IF obj.t # "partial" THEN Fail(s, "type error: object is not a partial")
    ELSE [s EXCEPT !.vms[s.v].frames[frame + 1] = Defer(@, obj)]

\* Run or Call (kind) is made on the VM: whether its halt flag is set.
Late(s, kind) ==
    [s.obs.lateDone EXCEPT !.valid = M(s).halt = 1, !.vm = s.v, !.kind = kind,
                           !.executed = FALSE, !.returned = FALSE, !.atEnd = FALSE,
                           !.err = "", !.ctxErr = ""]

\* The eval of a Run or Call made on a halted VM returns err, at the end
\* of the code (atEnd) or at the test of the halt flag.
lateReturn(s, atEnd, err) ==
    IF s.obs.lateDone.valid /\ ~s.obs.lateDone.returned /\ s.obs.lateDone.vm = s.v
       /\ s.t = s.v
    THEN [s EXCEPT !.obs.lateDone.returned = TRUE, !.obs.lateDone.atEnd = atEnd,
                   !.obs.lateDone.err = err, !.obs.lateDone.ctxErr = CtxErr(s)]
    ELSE s

\* Halt is executed in an eval of a Run that has not returned: the Go
\* function that started the eval (run, cf, lm).
halted(s) ==
    IF K(s)[1].k = "run" /\ ~s.obs.haltDone.valid
    THEN [s EXCEPT !.obs.haltDone.valid = TRUE, !.obs.haltDone.kind = TopEntry(s).k]
    ELSE s

\* An instruction is about to execute: in a Run that has executed Halt, or
\* in the eval of a Run or Call made on a halted VM.
executing(s) ==
    [s EXCEPT !.obs.haltDone.after = @ \/ (K(s)[1].k = "run" /\ s.obs.haltDone.valid),
              !.obs.lateDone.executed =
                  @ \/ (s.obs.lateDone.valid /\ ~s.obs.lateDone.returned
                        /\ s.obs.lateDone.vm = s.v /\ s.t = s.v)]

\* The switch on the opcode, s the state after ip++.
dispatch(s, opcode) ==
    CASE opcode = OpNop -> s
      [] opcode = OpLoadConst -> opLoad(fetch(s), ActiveCodeOf(s).consts, Operand(s))
      [] opcode = OpLoadFast ->
            slotAccess(opLoad(fetch(s), Locals(s, FrameAt(M(s), M(s).activeFrame)),
                              Operand(s)),
                       "LoadFast", M(s).activeFrame, Operand(s), GoNil)
      [] opcode = OpLoadFree ->
            opLoadFree(fetch(s), FrameAt(M(s), M(s).activeFrame).fn, Operand(s))
      [] opcode = OpStoreFree ->
            opStoreFree(pop(fetch(s)), FrameAt(M(s), M(s).activeFrame).fn, Operand(s),
                        Top(s))
      [] opcode = OpLoadClosure ->
            opLoadClosure(popCells(fetch(fetch(s)), Operand(fetch(s)), <<>>),
                          ActiveCodeOf(s).consts, Operand(s))
      [] opcode = OpMakeCell ->
            opMakeCell(fetch(fetch(s)), Operand(s), Operand(fetch(s)))
      [] opcode = OpLoadGlobal -> opLoad(fetch(s), s.gvecs[ActiveGlobals(s)], Operand(s))
      [] opcode = OpStoreFast ->
            slotAccess(opStoreFast(pop(fetch(s)), M(s).activeFrame, Operand(s), Top(s)),
                       "StoreFast", M(s).activeFrame, Operand(s), Top(s))
      [] opcode = OpStoreGlobal ->
            opStoreGlobal(pop(fetch(s)), ActiveGlobals(s), Operand(s), Top(s))
      [] opcode = OpNil -> push(s, Nil)
      [] opcode = OpTrue -> push(s, NewBool(TRUE))
      [] opcode = OpFalse -> push(s, NewBool(FALSE))
      [] opcode = OpCall ->
            opCall(pop(popArgs(fetch(s), Operand(s) - 1)),
                   Slot(M(s).stack, M(s).sp - Operand(s)), Operand(s))
      [] opcode = OpPartial ->
            opPartial(popInto(fetch(s), [j \in 1..Operand(s) |-> GoNil], Operand(s) - 1))
      [] opcode = OpReturnValue ->
            opReturnValue(resumeFrame(s, M(s).fp - 1,
                                      FrameAt(M(s), M(s).activeFrame).returnAddr,
                                      FrameAt(M(s), M(s).activeFrame).returnSp),
                          FrameAt(M(s), M(s).activeFrame).returnAddr)
      [] opcode = OpPopJumpForwardIfTrue ->
            opPopJump(fetch(pop(s)), Top(s), Operand(s) - 2, TRUE, TRUE)
      [] opcode = OpPopJumpForwardIfFalse ->
            opPopJump(fetch(pop(s)), Top(s), Operand(s) - 2, TRUE, FALSE)
      [] opcode = OpPopJumpBackwardIfTrue ->
            opPopJump(fetch(pop(s)), Top(s), Operand(s) - 2, FALSE, TRUE)
      [] opcode = OpPopJumpBackwardIfFalse ->
            opPopJump(fetch(pop(s)), Top(s), Operand(s) - 2, FALSE, FALSE)
      [] opcode = OpJumpForward -> opJump(fetch(s), M(s).ip - 1, Operand(s), TRUE)
      [] opcode = OpJumpBackward -> opJump(fetch(s), M(s).ip - 1, Operand(s), FALSE)
      [] opcode = OpImport -> opImport(pop(s), Top(s))
      [] opcode = OpFromImport ->
            opFromImport(fetch(fetch(s)), Operand(s), Operand(fetch(s)))
      [] opcode = OpPopTop -> pop(s)
      [] opcode = OpUnpack -> opUnpack(fetch(pop(s)), Top(s), Operand(s))
      [] opcode = OpGo -> opGo(pop(s), Top(s), K(s)[1].spawnVM)
      [] opcode = OpDefer -> opDefer(pop(s), Top(s), M(s).activeFrame)
      [] opcode = OpHalt -> Stop(halted(s))
      [] OTHER -> Fail(s, "exec error: unknown opcode")

\* The instruction is done: eval returns with its panic or its result, or
\* goes to the head of the loop.
endOfCase(s) ==
    IF s.pan # "" THEN ThenReturnFromEval(s, PanicOut(s.pan))
    ELSE IF s.ret # "" THEN ThenReturnFromEval(s, OutOf(s))
    ELSE s

\* One iteration of eval's loop (vm.go:223-666).
evalIter(s) ==
    IF M(s).activeCode = 0 THEN ThenReturnFromEval(s, PanicOut(NilPanic))
    ELSE IF ~(M(s).ip < Len(ActiveCodeOf(s).instrs))
    THEN ThenReturnFromEval(lateReturn(s, TRUE, ""), OkOut(GoNil, 0))
    ELSE IF M(s).halt = 1
    THEN ThenReturnFromEval(lateReturn([s EXCEPT !.k[s.t][1].sawHalt = TRUE], FALSE,
                                       CtxErr(s)),
                            IF CtxErr(s) = "" THEN OkOut(GoNil, 0) ELSE ErrOut(CtxErr(s)))
    ELSE IF M(s).ip < 0 THEN ThenReturnFromEval(s, PanicOut(IndexPanic))
    ELSE endOfCase(dispatch(executing([s EXCEPT !.vms[s.v].ip = @ + 1]),
                            ActiveCodeOf(s).instrs[M(s).ip + 1]))

\* The iteration with everything the instruction sets off, until some eval
\* loop is back at its head.
evalStep(s) == Settle(evalIter(s))

\* ------------------------------------------------------------------------
\* The embedder and the scheduler

\* The VMs the embedder holds: the one from New and those it cloned.
Owned(v) == v = 1 \/ obs.born[v].api

Idle(v) == gostack[v] = <<>>

\* The opcode the task of VM v executes next (OpInvalid if none).
NextOp(v) ==
    LET m == vms[v]
        ins == IF m.activeCode = 0 THEN <<>> ELSE Code(codes[m.activeCode].cc).instrs
    IN  IF m.ip >= 0 /\ m.ip < Len(ins) /\ m.halt = 0 THEN ins[m.ip + 1] ELSE OpInvalid

Commit(s) ==
    /\ vms' = s.vms
    /\ gostack' = s.k
    /\ codes' = s.codes
    /\ gvecs' = s.gvecs
    /\ regs' = s.regs
    /\ modmaps' = s.modmaps
    /\ mods' = s.mods
    /\ obs' = s.obs

RECURSIVE LoadAll(_, _, _)
\* for i := 0; i < c; i++ { if fn is a *compiler.Function { vm.load(fn.Code()) } }
LoadAll(s, consts, i) ==
    IF i > Len(consts) THEN s
    ELSE LoadAll(IF consts[i].t = "function" THEN load(s, Fn(consts[i].s).code) ELSE s,
                 consts, i + 1)

\* Run from the activation of main to the call of eval (vm.go:174-180)
evalMain(s, ip, e) ==
    LET s1 == activateCode(s, 0, ip, Reg(s)[M(s).main])
    IN  IF s1.pan # "" THEN ThenReturnFromEval(PushEntry(Clear(s1), e), PanicOut(s1.pan))
        ELSE PushEntry(s1, e)

\* if len(vm.loadedCode) > 0 { vm.reload(vm.main) } else { vm.load(vm.main) }
loadMain(s) ==
    IF \E cc \in CodeNames : Reg(s)[cc] # 0 THEN reload(s, M(s).main)
    ELSE load(s, M(s).main)

\* Run that clears the halt flag before it evaluates.
RunPrologClearingHalt(s, ctx) ==
    evalMain(loadMain(LoadAll([s EXCEPT !.vms[s.v].running = TRUE,
                                        !.vms[s.v].halt = 0,
                                        !.obs.haltDone = NoObs.haltDone,
                                        !.obs.lateDone = Late(s, "run")],
                              Code(M(s).main).consts, 1)),
             M(s).ip,
             [Entry EXCEPT !.k = "run", !.ctx = ctx, !.spawn = M(s).concAllowed,
                           !.callVM = s.v,
                           !.spawnVM = IF M(s).concAllowed THEN s.v ELSE 0])

\* vm.Run(ctx) up to the call of eval (vm.go:124-180). ctx is a fresh
\* cancellable context; the goroutine that waits for it is started.
RunProlog(s, ctx) ==
    evalMain(loadMain(LoadAll([s EXCEPT !.vms[s.v].running = TRUE,
                                        !.obs.haltDone = NoObs.haltDone,
                                        !.obs.lateDone = Late(s, "run")],
                              Code(M(s).main).consts, 1)),
             M(s).ip,
             [Entry EXCEPT !.k = "run", !.ctx = ctx, !.spawn = M(s).concAllowed,
                           !.callVM = s.v,
                           !.spawnVM = IF M(s).concAllowed THEN s.v ELSE 0])

\* The embedder has one task: Run and Call block it until they return.
Run(v) ==
    /\ Owned(v)
    /\ \A u \in 1..Len(vms) : Owned(u) => Idle(u)
    /\ runs < MaxRuns
    /\ runs' = runs + 1
    /\ watchers' = watchers \cup {<<runs + 1, v>>}
    /\ Commit(Settle(RunProlog(World(v, v), runs + 1)))
    /\ UNCHANGED <<cancelled, apiCalls>>

\* The VM task t executes: the one whose Run, Call or callFunction it is in.
Drives(t) == gostack[t][1].callVM

\* One iteration of the eval loop task t is in.
Step(t) ==
    /\ ~Idle(t)
    /\ gostack[t][1].k # "spawned"
    /\ ~(NextOp(Drives(t)) = OpGo /\ Len(vms) >= MaxVMs)
    /\ Commit(evalStep(World(t, Drives(t))))
    /\ UNCHANGED <<cancelled, watchers, runs, apiCalls>>

\* The embedder cancels the context of a Run.
Cancel(c) ==
    /\ c \in 1..runs
    /\ c \notin cancelled
    /\ cancelled' = cancelled \cup {c}
    /\ UNCHANGED <<vms, gostack, codes, gvecs, regs, modmaps, mods, watchers,
                   runs, apiCalls, obs>>

\* The goroutine of Run: <-doneChan; atomic.StoreInt32(&vm.halt, 1)
Watch(w) ==
    /\ w \in watchers
    /\ w[1] \in cancelled
    /\ watchers' = watchers \ {w}
    /\ vms' = [vms EXCEPT ![w[2]].halt = 1]
    /\ UNCHANGED <<gostack, codes, gvecs, regs, modmaps, mods, cancelled,
                   runs, apiCalls, obs>>

\* Call without the test of vm.running.
CallApiUnguarded(s, fn, args) ==
    ThenCallFunction(PushEntry([s EXCEPT !.obs.apiDone =
                                   [valid |-> TRUE, vm |-> s.v, rejected |-> FALSE,
                                    err |-> "", wasRunning |-> K(s) # <<>>,
                                    out |-> "", fault |-> ""]],
                               [Entry EXCEPT !.k = "api", !.callVM = s.v]),
                     fn, args, Via("api", 0, 0, <<>>))

\* vm.Call(ctx, fn, args) with a background context (vm.go:750-755), from
\* the embedder between Runs or from host code the running VM has called.
CallApi(s, fn, args) ==
    IF M(s).running
    THEN [s EXCEPT !.obs.apiDone =
            [valid |-> TRUE, vm |-> s.v, rejected |-> TRUE,
             err |-> "exec error: cannot call function while the vm is running",
             wasRunning |-> K(s) # <<>>, out |-> "err", fault |-> ""]]
    ELSE ThenCallFunction(PushEntry([s EXCEPT !.obs.apiDone =
                                        [valid |-> TRUE, vm |-> s.v, rejected |-> FALSE,
                                         err |-> "", wasRunning |-> K(s) # <<>>,
                                         out |-> "", fault |-> ""],
                                               !.obs.lateDone = Late(s, "api")],
                                    [Entry EXCEPT !.k = "api", !.callVM = s.v]),
                          fn, args, Via("api", 0, 0, <<>>))

\* The embedder has function f of VM v's program: f belongs to the main
\* code, or to the code of a module the VM has cached.
Callable(v, f) ==
    \/ Code(Fn(f).code).root = vms[v].main
    \/ \E n \in ModNames :
          /\ modmaps[vms[v].modules][n] # 0
          /\ mods[modmaps[vms[v].modules][n]].code = Code(Fn(f).code).root

Call(v) ==
    /\ Owned(v)
    /\ Idle(v) \/ vms[v].running
    /\ apiCalls < MaxApiCalls
    /\ apiCalls' = apiCalls + 1
    /\ \E c \in ApiCalls(vms[v].main) :
          /\ Callable(v, c[1])
          /\ Commit(Settle(CallApi(World(v, v), NewFunction(c[1]), c[2])))
    /\ UNCHANGED <<cancelled, watchers, runs>>

\* vm.Clone() called by the embedder on a VM that is not executing.
CloneVM(v) ==
    /\ Owned(v) /\ Idle(v)
    /\ Len(vms) < MaxVMs
    /\ Commit(Clone(World(v, v), TRUE))
    /\ UNCHANGED <<cancelled, watchers, runs, apiCalls>>

\* The task launched by spawnFunction starts: it calls the function through
\* the call function of its context.
ThreadStart(t) ==
    /\ ~Idle(t)
    /\ gostack[t][1].k = "spawned"
    /\ LET e == gostack[t][1]
       IN  Commit(Settle(ThenCall(SetTop(World(t, e.callVM), [e EXCEPT !.k = "thread"]),
                                  e.fn, e.args, Via("thread", 0, 0, <<>>))))
    /\ UNCHANGED <<cancelled, watchers, runs, apiCalls>>

Born0 ==
    [parent |-> 0, codesAt |-> 0, parentIp |-> 0, runsAt |-> 0, clone |-> NewVM("", FALSE),
     before |-> [vm |-> NewVM("", FALSE), reg |-> EmptyReg, modules |-> EmptyModMap],
     after |-> [vm |-> NewVM("", FALSE), reg |-> EmptyReg, modules |-> EmptyModMap],
     api |-> FALSE]

\* New(main, options...): the program, and whether WithConcurrency is given.
New(mains) ==
    /\ \E main \in mains, conc \in BOOLEAN : vms = <<NewVM(main, conc)>>
    /\ gostack = << <<>> >>
    /\ codes = <<>>
    /\ gvecs = <<>>
    /\ regs = <<EmptyReg>>
    /\ modmaps = <<EmptyModMap>>
    /\ mods = <<>>
    /\ cancelled = {}
    /\ watchers = {}
    /\ runs = 0
    /\ apiCalls = 0
    /\ obs = [NoObs EXCEPT !.born = <<Born0>>]

Init == New(Programs)

Next ==
    \/ \E v \in 1..Len(vms) : Run(v)
    \/ \E v \in 1..Len(vms) : Step(v)
    \/ \E c \in 1..MaxRuns : Cancel(c)
    \/ \E w \in watchers : Watch(w)
    \/ \E v \in 1..Len(vms) : Call(v)
    \/ \E v \in 1..Len(vms) : CloneVM(v)
    \/ \E v \in 1..Len(vms) : ThreadStart(v)

Spec == Init /\ [][Next]_vars

\* The programs that reach the ends of the stack and of the frame store,
\* run by an embedder that only calls Run.
InitEdge == New(EdgePrograms)

NextEdge ==
    \/ \E v \in 1..Len(vms) : Run(v)
    \/ \E v \in 1..Len(vms) : Step(v)

SpecEdge == InitEdge /\ [][NextEdge]_vars

\* The programs that spawn tasks, run by an embedder that calls Run and
\* cancels. The Go scheduler lets every task that can execute its next
\* instruction do so, starts every spawned task, and runs the goroutine of
\* Run once its context is done.
SpawnPrograms == {"go", "gospin"}

InitSpawn == New(SpawnPrograms)

NextSpawn ==
    \/ \E v \in 1..Len(vms) : Run(v)
    \/ \E v \in 1..Len(vms) : Step(v)
    \/ \E c \in 1..MaxRuns : Cancel(c)
    \/ \E w \in watchers : Watch(w)
    \/ \E v \in 1..Len(vms) : ThreadStart(v)

\* ENABLED <<Step(t)>>_vars: task t is in an eval loop (the bound on the
\* number of VMs stops a task at a go statement).
CanStep(t) ==
    /\ t <= Len(vms)
    /\ ~Idle(t)
    /\ gostack[t][1].k # "spawned"
    /\ ~(NextOp(Drives(t)) = OpGo /\ Len(vms) >= MaxVMs)

\* ENABLED <<ThreadStart(t)>>_vars
CanStart(t) == t <= Len(vms) /\ ~Idle(t) /\ gostack[t][1].k = "spawned"

\* Weak fairness of the goroutines of Run, of the steps of every task and
\* of the start of every spawned task. For the last two WF_vars(A) is
\* written out as []<>~ENABLED <<A>>_vars \/ []<><<A>>_vars, with ENABLED
\* as defined above.
SpecSpawn ==
    /\ InitSpawn
    /\ [][NextSpawn]_vars
    /\ WF_vars(\E w \in watchers : Watch(w))
    /\ \A t \in 1..MaxVMs : []<>(~CanStep(t)) \/ []<><<t <= Len(vms) /\ Step(t)>>_vars
    /\ \A t \in 1..MaxVMs :
           []<>(~CanStart(t)) \/ []<><<t <= Len(vms) /\ ThreadStart(t)>>_vars

\* The programs for single instructions and nested evaluations, run by an
\* embedder that calls Run and Call and cancels, on one VM.
InitOps == New(OpsPrograms)

NextOps ==
    \/ \E v \in 1..Len(vms) : Run(v)
    \/ \E v \in 1..Len(vms) : Step(v)
    \/ \E c \in 1..MaxRuns : Cancel(c)
    \/ \E w \in watchers : Watch(w)
    \/ \E v \in 1..Len(vms) : Call(v)

SpecOps == InitOps /\ [][NextOps]_vars

\* ------------------------------------------------------------------------
\* Properties

\* C1: after every Call instruction whose callee completes without error,
\* callees with deferred calls included, sp_after = sp_before - argc and the
\* stack holds exactly what was below the callee slot plus the one result.
C1_StackAfterCall ==
    obs.callDone.valid =>
        /\ obs.callDone.spAfter = obs.callDone.spBefore - obs.callDone.argc
        /\ obs.callDone.clean

\* C2: when a frame whose return value has been produced has fired all
\* the deferred calls it registered, they were fired in strictly reverse
\* order of registration.
C2_DefersReverseOrder ==
    (/\ obs.deferDone.valid
     /\ obs.deferDone.result # GoNil
     /\ Len(obs.deferDone.fired) = Len(obs.deferDone.reg)) =>
        obs.deferDone.fired = Reverse(obs.deferDone.reg)

\* C3: when the dispatcher has seen the halt flag of a Run whose context
\* is cancelled, nested call or module load included, the error Run
\* returns is the cancellation cause of that context.
C3_RunReturnsCancelCause ==
    (obs.runDone.valid /\ obs.runDone.sawHalt /\ obs.runDone.ctxErr # "") =>
        obs.runDone.err = obs.runDone.ctxErr

\* C4: two imports of one name in one VM that both succeed yield the
\* identical module, and at most one of them called the importer and
\* evaluated the module's code.
C4_SameModuleNoReimport ==
    \A i, j \in 1..Len(obs.imports) :
        (i # j /\ obs.imports[i].vm = obs.imports[j].vm
               /\ obs.imports[i].name = obs.imports[j].name) =>
            /\ obs.imports[i].mod = obs.imports[j].mod
            /\ ~(obs.imports[i].miss /\ obs.imports[j].miss)

\* C5: the code of each module name is evaluated at most once, recursive
\* imports and imports repeated after a failed evaluation included.
C5_EvaluatedAtMostOnce == \A n \in ModNames : obs.evals[n] <= 1

\* C6: in every reachable state -1 <= sp < MaxStackDepth, the state left
\* by a push onto a full stack or a pop from an empty one included.
C6_SpInRange ==
    \A v \in 1..Len(vms) : -1 <= vms[v].sp /\ vms[v].sp < MaxStackDepth

\* C7: in every reachable state 0 <= fp < MaxFrameDepth, ReturnValue
\* executed in the frame at fp = 0 included.
C7_FpInRange ==
    \A v \in 1..Len(vms) : 0 <= vms[v].fp /\ vms[v].fp < MaxFrameDepth

\* A Run of VM v has begun its evaluation and has not returned.
RunInProgress(v) == gostack[v] # <<>> /\ gostack[v][1].k = "run"

\* What Call must leave alone when it rejects.
Registers(m) ==
    [ip |-> m.ip, sp |-> m.sp, fp |-> m.fp, stack |-> m.stack, frames |-> m.frames]

\* C8: a Call made while a Run of the VM is in progress returns the error
\* 'cannot call function while the vm is running' and leaves ip, sp, fp,
\* the operand stack and the frames unchanged; a Call made when no Run is
\* in progress is accepted and the function is entered.
C8_CallOnlyWhenNotRunning ==
    [][apiCalls' = apiCalls + 1 =>
        IF RunInProgress(obs'.apiDone.vm)
        THEN /\ obs'.apiDone.rejected
             /\ obs'.apiDone.err = "exec error: cannot call function while the vm is running"
             /\ Registers(vms'[obs'.apiDone.vm]) = Registers(vms[obs'.apiDone.vm])
             /\ gostack' = gostack
        ELSE /\ ~obs'.apiDone.rejected
             /\ gostack'[obs'.apiDone.vm] # <<>>
             /\ gostack'[obs'.apiDone.vm][1].k = "api"
             /\ vms'[obs'.apiDone.vm].fp = vms[obs'.apiDone.vm].fp + 1]_vars

\* C8 witness: a Call was made during a Run and rejected.
C8_RejectedDuringRun ==
    /\ obs.apiDone.valid
    /\ obs.apiDone.rejected
    /\ obs.apiDone.wasRunning
    /\ RunInProgress(obs.apiDone.vm)

\* C9: immediately after Clone, whatever the parent was doing, the clone
\* has sp = -1, fp = 0, an empty operand stack, running = false, the loaded
\* main code as its active code, and its instruction pointer at the
\* entrypoint (0), independent of the parent's instruction pointer.
C9_CloneRegistersEmpty ==
    \A v \in 2..Len(obs.born) :
        /\ obs.born[v].clone.sp = -1
        /\ obs.born[v].clone.fp = 0
        /\ obs.born[v].clone.stack = <<>>
        /\ ~obs.born[v].clone.running
        /\ obs.born[v].clone.activeCode # 0
        /\ codes[obs.born[v].clone.activeCode].cc = obs.born[v].clone.main
        /\ obs.born[v].clone.ip = 0

\* What a VM has of its own (C10): ip, sp, fp, the operand
\* stack, the frames, the loaded-code registry and the module cache.
Own(v) ==
    [registers |-> Registers(vms[v]),
     loadedCode |-> regs[vms[v].loadedCode],
     modules |-> modmaps[vms[v].modules]]

OwnOf(p) == [registers |-> Registers(p.vm), loadedCode |-> p.reg, modules |-> p.modules]

\* Clone left its parent as it was.
ParentUnchanged ==
    \A c \in 2..Len(obs.born) : OwnOf(obs.born[c].before) = OwnOf(obs.born[c].after)

\* No step changes what two VMs have of their own: an operation of one VM
\* leaves every other VM's as it was.
OthersUnchanged ==
    \A u, w \in 1..Len(vms) : u # w => (Own(u)' = Own(u) \/ Own(w)' = Own(w))

\* The globals VM v reads and writes in code cc, <<>> if v has not loaded cc.
GlobalsSeen(v, cc) ==
    IF regs[vms[v].loadedCode][cc] = 0 THEN <<>>
    ELSE gvecs[codes[regs[vms[v].loadedCode][cc]].globals]

\* Clone c and its parent see the same value in every global slot of the
\* code that was loaded when c was made and that both have loaded.
GlobalsShared(c) ==
    \A cc \in CodeNames :
        (/\ obs.born[c].before.reg[cc] # 0
         /\ regs[vms[c].loadedCode][cc] # 0
         /\ regs[vms[obs.born[c].parent].loadedCode][cc] # 0) =>
            GlobalsSeen(c, cc) = GlobalsSeen(obs.born[c].parent, cc)

Live(t) == gostack[t] # <<>>

\* What only the task that drives a VM may read or write.
TaskState(m) ==
    [ip |-> m.ip, sp |-> m.sp, fp |-> m.fp, stack |-> m.stack, frames |-> m.frames,
     tmp |-> m.tmp]

\* C11: no two live tasks drive the same VM; a spawned task drives a
\* clone made by its spawn, not owned by the embedder or by another task, and
\* the call and spawn functions of its context are that clone's; and no step
\* changes ip, sp, fp, stack, frames or tmp of two VMs that existed before it.
C11_OneTaskPerVM ==
    [][/\ \A t, u \in 1..Len(gostack) :
            (Live(t) /\ Live(u) /\ t # u) => Drives(t) # Drives(u)
       /\ \A t \in 1..Len(gostack) :
            (Live(t) /\ gostack[t][1].k \in {"spawned", "thread"}) =>
                /\ ~obs.born[Drives(t)].api
                /\ obs.born[Drives(t)].parent # Drives(t)
                /\ gostack[t][1].spawnVM = Drives(t)
                /\ Drives(t) = t
       /\ \A u, w \in 1..Len(vms) :
            u # w => (TaskState(vms[u])' = TaskState(vms[u])
                      \/ TaskState(vms[w])' = TaskState(vms[w]))]_vars

\* C11 witness: the task spawned by main code "go" executes in its clone
\* while the Run that spawned it is still in progress in the parent.
C11_TwoTasksTwoVMs ==
    /\ Len(vms) = 2
    /\ RunInProgress(1)
    /\ Live(2)
    /\ gostack[2][1].k = "thread"
    /\ Drives(2) = 2
    /\ vms[2].fp = 1
    /\ vms[2].ip > 0

\* The globals vector of VM v's loaded wrapper of code cc.
GlobalsOf(v, cc) == codes[regs[vms[v].loadedCode][cc]].globals

\* C12: in every VM the loaded wrappers of code objects that share a root
\* refer to one globals vector, and the globals view of a cached module is
\* the vector of the loaded wrapper of the module's code, so that a function
\* of the module reads and writes the globals the module's evaluation set.
C12_OneGlobalsPerRoot ==
    \A v \in 1..Len(vms) :
        /\ \A cc \in CodeNames :
              (/\ regs[vms[v].loadedCode][cc] # 0
               /\ regs[vms[v].loadedCode][Code(cc).root] # 0) =>
                  GlobalsOf(v, cc) = GlobalsOf(v, Code(cc).root)
        /\ \A n \in ModNames :
              (/\ modmaps[vms[v].modules][n] # 0
               /\ regs[vms[v].loadedCode][mods[modmaps[vms[v].modules][n]].code] # 0) =>
                  mods[modmaps[vms[v].modules][n]].globals =
                      GlobalsOf(v, mods[modmaps[vms[v].modules][n]].code)

\* The VM whose Run begins in this step.
RunStarts(v) == <<runs + 1, v>> \in watchers' \ watchers

\* C13: a Run of a VM whose registry is not empty leaves a registry that
\* holds only wrappers made by this Run, the main code's among them, and the
\* new globals vector of the main code holds in every slot the value the
\* previously loaded main wrapper's vector held.
C13_ReloadKeepsGlobals ==
    [][\A v \in 1..Len(vms) :
          (RunStarts(v) /\ \E cc \in CodeNames : regs[vms[v].loadedCode][cc] # 0) =>
              /\ regs[vms[v].loadedCode][vms[v].main] # 0
              /\ regs'[vms'[v].loadedCode][vms[v].main] > Len(codes)
              /\ \A cc \in CodeNames :
                    regs'[vms'[v].loadedCode][cc] # 0 =>
                        regs'[vms'[v].loadedCode][cc] > Len(codes)
              /\ GlobalsOf(v, vms[v].main)' > Len(gvecs)
              /\ gvecs'[GlobalsOf(v, vms[v].main)'] = gvecs[GlobalsOf(v, vms[v].main)]]_vars

\* C13 witness: a second Run of main code "go" has begun; the main code
\* has a new wrapper and a new vector, which holds the value stored to g
\* during the first Run.
C13_SecondRunHasGlobals ==
    /\ runs = 2
    /\ vms[1].main = "go"
    /\ RunInProgress(1)
    /\ regs[vms[1].loadedCode]["go"] = Len(codes)
    /\ GlobalsOf(1, "go") = Len(gvecs)
    /\ Len(gvecs) > 1
    /\ gvecs[GlobalsOf(1, "go")] # <<GoNil>>
    /\ gvecs[GlobalsOf(1, "go")] = gvecs[codes[1].globals]

\* C14: a fault while the dispatcher executes is caught and returned as
\* the error 'panic: <detail>' also when Call started the dispatcher: a Call
\* in which a fault occurred returns that error to the embedder.
C14_FaultsReturnedAsErrors ==
    obs.apiDone.fault # "" =>
        (obs.apiDone.out = "err" /\ obs.apiDone.err = "panic: " \o obs.apiDone.fault)

\* The number of times x occurs in q.
Count(q, x) == Cardinality({i \in 1..Len(q) : q[i] = x})

\* The deferred calls, in the order fired, that returned an error.
Failing(errs) == {i \in 1..Len(errs) : errs[i] # ""}

\* C15: when a function frame that registered deferred calls exits by a
\* normal return, an error of its body or cancellation, each registered
\* deferred call has been invoked exactly once; and if some of them failed,
\* the call returns the error of the last one that failed and no result,
\* also when the body had failed with another error.
C15_DefersOnEveryExit ==
    (obs.deferDone.valid /\ obs.deferDone.out # "panic") =>
        /\ Len(obs.deferDone.fired) = Len(obs.deferDone.reg)
        /\ Len(obs.deferDone.errs) = Len(obs.deferDone.reg)
        /\ \A i \in 1..Len(obs.deferDone.reg) :
              Count(obs.deferDone.fired, obs.deferDone.reg[i]) =
                  Count(obs.deferDone.reg, obs.deferDone.reg[i])
        /\ Failing(obs.deferDone.errs) # {} =>
              /\ obs.deferDone.out = "err"
              /\ obs.deferDone.result = GoNil
              /\ \E i \in Failing(obs.deferDone.errs) :
                    /\ \A j \in Failing(obs.deferDone.errs) : j <= i
                    /\ obs.deferDone.err = obs.deferDone.errs[i]

\* C15 witness: the body of h has failed by calling an integer, its three
\* deferred calls have been invoked, two of them failed, and the call of h
\* has returned the error of the second.
C15_LastFailingDeferWins ==
    /\ obs.deferDone.valid
    /\ Len(obs.deferDone.reg) = 3
    /\ obs.deferDone.body = "type error: object is not callable"
    /\ obs.deferDone.errs = <<"exec error: unknown opcode", "host error", "">>
    /\ obs.deferDone.out = "err"
    /\ obs.deferDone.err = "host error"

\* C16: when FromImport completes, the popped strings (importsCount names
\* and parentLen path segments) have been replaced by exactly importsCount
\* values.
C16_FromImportPushesImportsCount ==
    obs.fromDone.valid =>
        obs.fromDone.spAfter =
            obs.fromDone.spBefore - obs.fromDone.imports - obs.fromDone.parentLen
                + obs.fromDone.imports

\* C18: when loadModule or callFunction has returned with a result or an
\* error, fp, ip, the active frame and the active code are those of its
\* entry, and sp is its entry value: nothing the module's code or the
\* aborted frame left on the stack remains.
C18_NestedReturnRestores ==
    (obs.nestDone.valid /\ obs.nestDone.out # "panic") =>
        /\ obs.nestDone.fp /\ obs.nestDone.ip
        /\ obs.nestDone.frame /\ obs.nestDone.code
        /\ obs.nestDone.spExit = obs.nestDone.spEntry

\* C17: Unpack n on a container of m elements: if m # n the instruction
\* fails with 'unpack count mismatch: m != n' and pushes nothing; if m = n it
\* has popped the container and pushed the n elements in iteration order, so
\* that sp has grown by n - 1.
C17_UnpackCounts ==
    obs.unpackDone.valid =>
        IF obs.unpackDone.m # obs.unpackDone.n
        THEN /\ obs.unpackDone.err =
                    "exec error: unpack count mismatch: " \o ToString(obs.unpackDone.m)
                        \o " != " \o ToString(obs.unpackDone.n)
             /\ obs.unpackDone.stack = obs.unpackDone.below
             /\ obs.unpackDone.spAfter = obs.unpackDone.spBefore - 1
        ELSE /\ obs.unpackDone.err = ""
             /\ obs.unpackDone.stack = obs.unpackDone.below \o obs.unpackDone.items
             /\ obs.unpackDone.spAfter = obs.unpackDone.spBefore + obs.unpackDone.n - 1

\* C17 witness: the list of two has been unpacked to two names above the
\* sentinel.
C17_UnpackedTwo ==
    /\ obs.unpackDone.valid
    /\ obs.unpackDone.m = 2
    /\ obs.unpackDone.n = 2
    /\ vms[1].sp = 2
    /\ vms[1].stack = <<NewBool(TRUE), NewInt(1), NewInt(2)>>

\* C19: a jump at address A with operand d leaves ip = A + d when taken
\* forward and ip = A - d when taken backward, conditional or not; a
\* conditional jump that is not taken leaves ip = A + 2.
C19_JumpTargets ==
    obs.jumpDone.valid =>
        obs.jumpDone.ip =
            IF ~obs.jumpDone.taken THEN obs.jumpDone.at + 2
            ELSE IF obs.jumpDone.forward THEN obs.jumpDone.at + obs.jumpDone.d
            ELSE obs.jumpDone.at - obs.jumpDone.d

\* C20: a call against a partial with bound arguments b1..bk and
\* call-site arguments a1..an invokes the callee with b1..bk followed by
\* a1..an.
C20_BoundArgumentsFirst ==
    obs.partialDone.valid =>
        obs.partialDone.passed = obs.partialDone.bound \o obs.partialDone.site

\* ------------------------------------------------------------------------
\* C21: while a Run of a VM is in progress, the code of every function
\* constant of main is in the VM's loaded-code registry (so that calling
\* such a function adds no entry to it).
C21_FunctionConstantsLoaded ==
    \A v \in 1..Len(vms) :
        RunInProgress(v) =>
            \A i \in 1..Len(Code(vms[v].main).consts) :
                Code(vms[v].main).consts[i].t = "function" =>
                    regs[vms[v].loadedCode][Fn(Code(vms[v].main).consts[i].s).code] # 0

\* ------------------------------------------------------------------------
\* C22: when a call with argc < paramsCount arguments has passed the
\* argument-count check and its frame is active, the frame's local slots
\* [0, argc) hold the arguments, every slot i with argc <= i < paramsCount
\* holds the entry of the defaults vector for parameter i and, whatever the
\* length of that vector, not a value an earlier call left in vm.tmp, and
\* slot paramsCount holds the callee if the callee is named.
C22_MissingArgumentsGetDefaults ==
    LET b == obs.bindDone
        f == Fn(b.fn)
        argc == Len(b.args)
    IN  b.valid =>
            /\ \A i \in 1..argc : b.locals[i] = b.args[i]
            /\ \A i \in (argc + 1)..f.params :
                   /\ i <= Len(f.defaults) => b.locals[i] = f.defaults[i]
                   /\ i > Len(f.defaults) => b.locals[i] = GoNil
            /\ Code(f.code).named => b.locals[f.params + 1] = NewFunction(b.fn)

\* ------------------------------------------------------------------------
\* C23: after MakeCell has captured local slot s of frame f, the cell and
\* the slot are one location: a LoadFree through the cell and a LoadFast of
\* slot s in frame f read the value last written by a StoreFast to slot s in
\* frame f or by a StoreFree through the cell, also once f has returned and
\* its frame-store entry is in use by another activation, whose locals do
\* not change the cell. MakeCell fails with 'no frame at depth' exactly when
\* framesBack exceeds fp.
C23_CellAndSlotOneLocation ==
    /\ obs.cellRead.valid => obs.cellRead.got = obs.cellRead.want
    /\ obs.cellMade.valid =>
           ((obs.cellMade.err = "exec error: no frame at depth")
                <=> (obs.cellMade.framesBack > obs.cellMade.fp))

\* C23 (the case happens): the cell outlives its frame, whose entry clob
\* has used with other locals; the closure reads 30 through the cell, the
\* value it stored there before, and the run then fails in a MakeCell
\* one frame beyond the frame store.
C23_CellOutlivesFrame ==
    /\ obs.cellRead.valid
    /\ obs.cellRead.op = "LoadFree"
    /\ obs.cellRead.reused
    /\ obs.cellRead.got = NewInt(30)
    /\ obs.cellMade.framesBack > obs.cellMade.fp
    /\ obs.runDone.valid
    /\ obs.runDone.err = "exec error: no frame at depth"

\* ------------------------------------------------------------------------
\* A task spawned by a go statement, not yet finished, whose context is the
\* cancelled context of a Run.
SpawnedUnderCancelled(t) ==
    /\ t <= Len(vms)
    /\ ~Idle(t)
    /\ gostack[t][1].k \in {"spawned", "thread"}
    /\ gostack[t][1].ctx \in cancelled

\* C24: once the context of a Run is cancelled, every task spawned under it
\* that is still executing eventually has the halt flag of its clone set or
\* has finished, whatever its code does.
C24_CancelReachesClones ==
    \A t \in 2..MaxVMs :
        SpawnedUnderCancelled(t) ~> (t <= Len(vms) /\ (vms[t].halt = 1 \/ Idle(t)))

\* ------------------------------------------------------------------------
\* C25: once a Run has executed Halt, in the main code, in a function body
\* or in the code of a module, it executes no further instruction, and when
\* it returns it returns no error.
C25_HaltStopsTheRun ==
    obs.haltDone.valid =>
        /\ ~obs.haltDone.after
        /\ obs.haltDone.returned => obs.haltDone.err = ""

\* ------------------------------------------------------------------------
\* No step clears a halt flag that is set.
HaltKept == \A v \in 1..Len(vms) : vms[v].halt = 1 => vms'[v].halt = 1

\* C26 (as stated): a halt flag that is set stays set, and the eval of
\* every Run or Call made on the VM after that executes no instruction and
\* returns the Err of the context it was given.
C26_HaltedReturnsCtxErr ==
    [][/\ HaltKept
       /\ obs'.lateDone.valid =>
              /\ ~obs'.lateDone.executed
              /\ obs'.lateDone.returned => obs'.lateDone.err = obs'.lateDone.ctxErr]_vars

\* C26 (amended): a halt flag that is set stays set, and the eval of every
\* Run or Call made on the VM after that executes no instruction and
\* returns the Err of the context it was given if the code it was started
\* on has an instruction left to execute, and no error otherwise.
C26_HaltedForGood ==
    [][/\ HaltKept
       /\ obs'.lateDone.valid =>
              /\ ~obs'.lateDone.executed
              /\ obs'.lateDone.returned =>
                     obs'.lateDone.err = IF obs'.lateDone.atEnd THEN ""
                                         ELSE obs'.lateDone.ctxErr]_vars

\* C26 (the case happens): the context of a Run was cancelled, and a new
\* Run of the VM, under a context that is not cancelled and with
\* instructions left to execute, has returned no error.
C26_LaterRunDoesNothing ==
    /\ obs.lateDone.valid
    /\ obs.lateDone.kind = "run"
    /\ obs.lateDone.returned
    /\ ~obs.lateDone.atEnd
    /\ obs.lateDone.err = ""
    /\ vms[obs.lateDone.vm].halt = 1
    /\ vms[obs.lateDone.vm].ip < Len(Code(vms[obs.lateDone.vm].main).instrs)

====
